---------------------------- MODULE Spec2Model ----------------------------
(***************************************************************************)
(* A model of the Travel-Agent repository: the weather and flight adapters *)
(* (external call, normalisation, synthetic fallback), the itinerary       *)
(* synthesiser, the plan composer (create_travel_plan) and the generate    *)
(* handler of the UI session (app.main).                                   *)
(*                                                                         *)
(* Strings the code searches, slices or trims are sequences of one-        *)
(* character strings ("deg" stands for the degree sign); temperatures and  *)
(* wind speeds are integers counting tenths; an operation that can raise   *)
(* returns [raised |-> TRUE] or [raised |-> FALSE, value |-> v].           *)
(***************************************************************************)
EXTENDS Integers, Sequences, FiniteSets, TLC

VARIABLES
    config,     \* config.settings: GOOGLE_API_KEY, ACCUWEATHER_API_KEY, USE_MOCK_DATA
    now,        \* datetime.now(): the current calendar date
    session,    \* st.session_state: agent, travel_plan
    pc,         \* position of the running operation
    req,        \* arguments of the running (or last) operation
    loc,        \* locals of the running operation
    ret,        \* what the last operation returned or raised
    ext,        \* external invocations made by the running (or last) operation
    tools       \* the tool objects constructed so far (WeatherTool: api_key, use_mock)

vars == <<config, now, session, pc, req, loc, ret, ext, tools>>

\* Python's None where a string key, a text, a match, a date or a number is
\* expected
None == "<None>"
NoneText == <<"<None>">>
NoMatch == <<>>
NoDate == [year |-> 0, month |-> 0, day |-> 0]
NoRet == [kind |-> "none"]
NoReq == [op |-> "none"]
NoLoc == [at |-> "none"]
NoExt == [agent |-> 0, llm |-> 0, weather |-> 0, flights |-> 0, places |-> 0]
NoTools == [constructed |-> FALSE]
\* st.session_state after initialize_session_state; NoPlan is the None of
\* travel_plan
NoPlan == [is_none |-> TRUE]
NoSession == [agent |-> None, travel_plan |-> NoPlan]

Raised(what) == [kind |-> "raised", raised |-> TRUE, error |-> what]
Returned(v) == [kind |-> "returned", raised |-> FALSE, value |-> v]

---------------------------------------------------------------------------
(* Characters and strings                                                  *)

Digits == <<"0", "1", "2", "3", "4", "5", "6", "7", "8", "9">>
LowerCase == <<"a", "b", "c", "d", "e", "f", "g", "h", "i", "j", "k", "l", "m",
               "n", "o", "p", "q", "r", "s", "t", "u", "v", "w", "x", "y", "z">>
UpperCase == <<"A", "B", "C", "D", "E", "F", "G", "H", "I", "J", "K", "L", "M",
               "N", "O", "P", "Q", "R", "S", "T", "U", "V", "W", "X", "Y", "Z">>
Whitespace == {" ", "\t", "\n"}

Range(s) == {s[i] : i \in DOMAIN s}
IndexOf(s, c) == CHOOSE i \in DOMAIN s : s[i] = c
Min(S) == CHOOSE x \in S : \A y \in S : x <= y
Max(S) == CHOOSE x \in S : \A y \in S : x >= y

DigitMap == [c \in Range(Digits) |-> IndexOf(Digits, c) - 1]
IsDigit(c) == c \in DOMAIN DigitMap
DigitVal(c) == DigitMap[c]
\* str.lower() and str.upper() on one character
LowerMap == [c \in Range(UpperCase) |-> LowerCase[IndexOf(UpperCase, c)]]
UpperMap == [c \in Range(LowerCase) |-> UpperCase[IndexOf(LowerCase, c)]]
LowerChar(c) == IF c \in DOMAIN LowerMap THEN LowerMap[c] ELSE c
UpperChar(c) == IF c \in DOMAIN UpperMap THEN UpperMap[c] ELSE c
Lower(s) == [i \in DOMAIN s |-> LowerChar(s[i])]
Upper(s) == [i \in DOMAIN s |-> UpperChar(s[i])]

\* s[:n]
Prefix(s, n) == SubSeq(s, 1, Min({n, Len(s)}))

\* str.strip(): leading and trailing whitespace removed
Strip(s) ==
    LET keep == {i \in DOMAIN s : s[i] \notin Whitespace}
    IN  IF keep = {} THEN <<>> ELSE SubSeq(s, Min(keep), Max(keep))

\* pat occurs in s at position i
HasAt(s, i, pat) ==
    /\ i >= 1
    /\ i + Len(pat) - 1 <= Len(s)
    /\ \A k \in DOMAIN pat : s[i + k - 1] = pat[k]

\* Python's  pat in s
Contains(s, pat) == \E i \in 1..(Len(s) + 1) : HasAt(s, i, pat)

\* int() of a run of digits
RECURSIVE DigitsToInt(_)
DigitsToInt(ds) ==
    IF ds = <<>> THEN 0
    ELSE 10 * DigitsToInt(SubSeq(ds, 1, Len(ds) - 1)) + DigitVal(ds[Len(ds)])

\* the first position from i on whose character is not in the set cs
RECURSIVE RunEnd(_, _, _)
RunEnd(s, i, cs) ==
    IF i > Len(s) \/ s[i] \notin cs THEN i ELSE RunEnd(s, i + 1, cs)

\* re.search(r'(\d+)<suffix>', s) from position i on: the digits of the
\* leftmost match, or NoMatch
RECURSIVE SearchNumberFrom(_, _, _)
SearchNumberFrom(s, i, suffix) ==
    IF i > Len(s) THEN NoMatch
    ELSE IF IsDigit(s[i]) /\ HasAt(s, RunEnd(s, i, DOMAIN DigitMap), suffix)
         THEN SubSeq(s, i, RunEnd(s, i, DOMAIN DigitMap) - 1)
         ELSE SearchNumberFrom(s, i + 1, suffix)

---------------------------------------------------------------------------
(* Calendar dates: datetime, timedelta, replace, strftime, strptime        *)

MonthNames ==
    <<<<"J","a","n","u","a","r","y">>,
      <<"F","e","b","r","u","a","r","y">>,
      <<"M","a","r","c","h">>,
      <<"A","p","r","i","l">>,
      <<"M","a","y">>,
      <<"J","u","n","e">>,
      <<"J","u","l","y">>,
      <<"A","u","g","u","s","t">>,
      <<"S","e","p","t","e","m","b","e","r">>,
      <<"O","c","t","o","b","e","r">>,
      <<"N","o","v","e","m","b","e","r">>,
      <<"D","e","c","e","m","b","e","r">>>>

Date(y, m, d) == [year |-> y, month |-> m, day |-> d]

DaysInMonth(y, m) ==
    IF m = 2 THEN (IF y % 4 = 0 /\ (y % 100 # 0 \/ y % 400 = 0) THEN 29 ELSE 28)
    ELSE IF m \in {4, 6, 9, 11} THEN 30 ELSE 31
DaysBeforeYear(y) ==
    (y - 1) * 365 + (y - 1) \div 4 - (y - 1) \div 100 + (y - 1) \div 400
RECURSIVE DaysBeforeMonth(_, _)
DaysBeforeMonth(y, m) ==
    IF m = 1 THEN 0 ELSE DaysBeforeMonth(y, m - 1) + DaysInMonth(y, m - 1)

\* date.toordinal() and date.fromordinal()
ToOrdinal(d) == DaysBeforeYear(d.year) + DaysBeforeMonth(d.year, d.month) + d.day
FromOrdinal(n) ==
    LET y == CHOOSE yy \in (n \div 366)..(n \div 365 + 1) :
                 DaysBeforeYear(yy) < n /\ n <= DaysBeforeYear(yy + 1)
        r == n - DaysBeforeYear(y)
        m == CHOOSE mm \in 1..12 :
                 /\ DaysBeforeMonth(y, mm) < r
                 /\ r <= DaysBeforeMonth(y, mm) + DaysInMonth(y, mm)
    IN  Date(y, m, r - DaysBeforeMonth(y, m))

\* datetime + timedelta(days=n)
AddDays(d, n) == FromOrdinal(ToOrdinal(d) + n)

\* datetime.replace(month=m, day=dd): ValueError (NoDate here) when the
\* result is no calendar date
Replace(d, m, dd) ==
    IF m \in 1..12 /\ dd >= 1 /\ dd <= DaysInMonth(d.year, m)
    THEN Date(d.year, m, dd) ELSE NoDate

\* the decimal digits of n, zero-padded to w places
RECURSIVE Pad(_, _)
Pad(n, w) ==
    IF w <= 1 /\ n < 10 THEN <<Digits[n + 1]>>
    ELSE Pad(n \div 10, w - 1) \o <<Digits[(n % 10) + 1]>>

\* strftime("%Y-%m-%d")
FormatISO(d) == Pad(d.year, 4) \o <<"-">> \o Pad(d.month, 2) \o <<"-">> \o Pad(d.day, 2)
\* strftime("%B %d, %Y")
FormatLong(d) ==
    MonthNames[d.month] \o <<" ">> \o Pad(d.day, 2) \o <<",", " ">> \o Pad(d.year, 4)

\* datetime.strptime(s, "%B %d, %Y"), as _convert_date_format reads a date
ParseLong(s) ==
    LET sp == Min({i \in DOMAIN s : s[i] = " "})
        cm == Min({i \in DOMAIN s : s[i] = ","})
    IN  Date(DigitsToInt(SubSeq(s, cm + 2, Len(s))),
             CHOOSE m \in 1..12 : MonthNames[m] = SubSeq(s, 1, sp - 1),
             DigitsToInt(SubSeq(s, sp + 1, cm - 1)))

\* calendar.month_name[month]
get_month_name(month) == MonthNames[month]

---------------------------------------------------------------------------
(* tools/weather_tool.py                                                   *)

PlaceholderKey == "your_accuweather_api_key_here"

SourceMCPWeather ==
    <<"M","C","P"," ","W","e","a","t","h","e","r"," ","S","e","r","v","e","r"," ",
      "(","A","c","c","u","W","e","a","t","h","e","r",")">>
SourceMockWeather ==
    <<"M","o","c","k"," ","D","a","t","a"," ","(","A","c","c","u","W","e","a","t","h",
      "e","r"," ","A","P","I"," ","k","e","y"," ","n","o","t"," ","c","o","n","f","i",
      "g","u","r","e","d",")">>
MCP == <<"M","C","P">>

Sunny == <<"s","u","n","n","y">>
Cloudy == <<"c","l","o","u","d","y">>
PartlyCloudy == <<"p","a","r","t","l","y"," ","c","l","o","u","d","y">>
conditions ==
    <<Sunny, Cloudy, <<"r","a","i","n","y">>, <<"c","l","e","a","r">>, PartlyCloudy,
      <<"o","v","e","r","c","a","s","t">>, <<"s","t","o","r","m","y">>>>
WindUnits == <<<<"m","p","h">>, <<"k","m","/","h">>, <<"m","/","s">>>>

\* a Python truth test of a configured key: None and "" are false
Truthy(key) == key # None /\ key # ""

\* WeatherTool.__init__: the assignment of line 20 is overwritten by the
\* validation of lines 23-28, which looks at the key alone
WeatherTool(cfg) ==
    LET api_key == cfg.ACCUWEATHER_API_KEY
        line20 == cfg.USE_MOCK_DATA \/ ~Truthy(api_key)
        line25 == FALSE
        line28 == TRUE
    IN  [api_key |-> api_key,
         use_mock |-> IF Truthy(api_key) /\ api_key # PlaceholderKey
                      THEN line25 ELSE line28]

\* _get_mock_current_weather
get_mock_current_weather_tagged_real(city) ==
    [city |-> city, temperature_celsius |-> 245, temperature_fahrenheit |-> 761,
     description |-> PartlyCloudy, humidity |-> 65, wind_speed |-> 125,
     feels_like_celsius |-> 238, source |-> SourceMCPWeather]
get_mock_current_weather(city) ==
    [city |-> city, temperature_celsius |-> 245, temperature_fahrenheit |-> 761,
     description |-> PartlyCloudy, humidity |-> 65, wind_speed |-> 125,
     feels_like_celsius |-> 238, source |-> SourceMockWeather]

\* _extract_temperature: the number of the first NN°C (NN°F) token, in tenths
extract_temperature(text, units) ==
    LET default == IF units = "metric" THEN 200 ELSE 680
        m == IF text = NoneText THEN NoMatch
             ELSE SearchNumberFrom(text, 1, IF units = "metric" THEN <<"deg", "C">>
                                                                ELSE <<"deg", "F">>)
    IN  IF m = NoMatch THEN default ELSE 10 * DigitsToInt(m)

\* _extract_description: the first entry of conditions that occurs in the text
extract_description(text) ==
    LET text_lower == Lower(text)
        found == {k \in DOMAIN conditions : Contains(text_lower, conditions[k])}
    IN  IF found = {} THEN <<"m","o","d","e","r","a","t","e"," ","w","e","a","t","h","e",
            "r">> ELSE conditions[Min(found)]

\* _extract_humidity: the number of the first NN% token
extract_humidity_given_temperature(text) ==
    LET m == IF text = NoneText \/ SearchNumberFrom(text, 1, <<"deg", "C">>) = NoMatch
             THEN NoMatch ELSE SearchNumberFrom(text, 1, <<"%">>)
    IN  IF m = NoMatch THEN 65 ELSE DigitsToInt(m)
extract_humidity(text) ==
    LET m == IF text = NoneText THEN NoMatch ELSE SearchNumberFrom(text, 1, <<"%">>)
    IN  IF m = NoMatch THEN 65 ELSE DigitsToInt(m)

\* re.search(r'(\d+\.?\d*)\s*(mph|km/h|m/s)', s): the number of the leftmost
\* match as <<integer digits, fraction digits>>, or NoMatch
\* A match at i is a digit at i, then digits with at most one point up to a
\* position e, then whitespace, then a unit.
WindMatchAt(s, i) ==
    LET e == RunEnd(s, i, DOMAIN DigitMap \cup {"."})
    IN  /\ IsDigit(s[i])
        /\ Cardinality({j \in i..(e - 1) : s[j] = "."}) <= 1
        /\ \E u \in DOMAIN WindUnits :
              HasAt(s, RunEnd(s, e, Whitespace), WindUnits[u])
RECURSIVE SearchWindFrom(_, _)
SearchWindFrom(s, i) ==
    IF i > Len(s) THEN NoMatch
    ELSE IF WindMatchAt(s, i)
         THEN LET e == RunEnd(s, i, DOMAIN DigitMap \cup {"."})
                  dot == RunEnd(s, i, DOMAIN DigitMap)
              IN  <<SubSeq(s, i, dot - 1), SubSeq(s, dot + 1, e - 1)>>
         ELSE SearchWindFrom(s, i + 1)

\* _extract_wind_speed, in tenths (the texts of the model carry at most one
\* fraction digit)
extract_wind_speed(text) ==
    LET m == IF text = NoneText THEN NoMatch ELSE SearchWindFrom(Lower(text), 1)
    IN  IF m = NoMatch THEN 100
        ELSE 10 * DigitsToInt(m[1]) + (IF m[2] = <<>> THEN 0 ELSE DigitVal(m[2][1]))

\* content[0].text if hasattr(content[0], 'text') else str(content[0])
ItemText(item) == IF "text" \in DOMAIN item THEN item.text ELSE item.repr

\* _parse_mcp_response: a record tagged as real whenever the content is a
\* non-empty list whose first item has a text; text.lower() of a text that is
\* no string (NoneText) raises, which the except clause turns into the mock
\* record.  content is [is_list, items].
parse_mcp_response(content, location, units) ==
    IF ~content.is_list \/ content.items = <<>>
    THEN get_mock_current_weather(location)
    ELSE LET weather_text == ItemText(content.items[1])
         IN  IF weather_text = NoneText THEN get_mock_current_weather(location)
             ELSE [city |-> location,
                   raw_data |-> weather_text,
                   temperature_celsius |-> extract_temperature(weather_text, units),
                   temperature_fahrenheit |->
                       IF units = "metric"
                       THEN extract_temperature(weather_text, "imperial")
                       ELSE (0 - 1000000),
                   description |-> extract_description(weather_text),
                   humidity |-> extract_humidity(weather_text),
                   wind_speed |-> extract_wind_speed(weather_text),
                   source |-> SourceMCPWeather,
                   units |-> units]

\* _call_mcp_weather: one invocation of the external service, e being what the
\* service does: it times out, raises, or returns a result
call_mcp_weather(location, units, e) ==
    CASE e.kind = "timeout" -> get_mock_current_weather(location)
      [] e.kind = "raise" -> get_mock_current_weather(location)
      [] e.kind = "result" ->
            IF e.has_content
            THEN parse_mcp_response(e.content, location, units)
            ELSE get_mock_current_weather(location)

\* get_current_weather: the record returned and the number of invocations of
\* the external service; e.kind = "loop_error" is the event loop failing to
\* start, before the service is invoked
get_current_weather_retrying(tool, city, units, e) ==
    IF tool.use_mock
    THEN [value |-> get_mock_current_weather(city), invoked |-> 0]
    ELSE IF e.kind = "loop_error"
         THEN [value |-> get_mock_current_weather(city), invoked |-> 0]
         ELSE [value |-> call_mcp_weather(city, units, e),
               invoked |-> IF e.kind \in {"timeout", "raise"} THEN 2 ELSE 1]
get_current_weather(tool, city, units, e) ==
    IF tool.use_mock
    THEN [value |-> get_mock_current_weather(city), invoked |-> 0]
    ELSE IF e.kind = "loop_error"
         THEN [value |-> get_mock_current_weather(city), invoked |-> 0]
         ELSE [value |-> call_mcp_weather(city, units, e), invoked |-> 1]

\* the date of entry i of a forecast derived from a real reading (line 222)
forecast_date(today, i) ==
    IF today.day + i <= 28
    THEN Replace(today, today.month, today.day + i)
    ELSE Replace(today, today.month + 1, 1)

\* _get_mock_forecast
get_mock_forecast(city, num_days, today) ==
    [k \in 1..num_days |->
        LET i == k - 1
            temp_variation == (i % 3) * 20
        IN  [date |-> FormatISO(AddDays(today, i)),
             temperature_celsius |-> 240 + temp_variation,
             temperature_fahrenheit |-> ((240 + temp_variation) * 9) \div 5 + 320,
             description |-> <<Sunny, PartlyCloudy, Cloudy>>[(i % 3) + 1],
             humidity |-> 60 + (i % 4) * 5,
             wind_speed |-> 100 + (i % 3) * 20]]

\* get_forecast: datetime.replace raises ValueError out of the loop, which
\* nothing in get_forecast catches
get_forecast(tool, city, num_days, e, today) ==
    LET cur == get_current_weather(tool, city, "metric", e)
        current == cur.value
    IN  IF Contains(current.source, MCP)
        THEN IF \E i \in 0..(num_days - 1) : forecast_date(today, i) = NoDate
             THEN [ret |-> Raised("ValueError"), invoked |-> cur.invoked]
             ELSE [ret |-> Returned(
                     [k \in 1..num_days |->
                        LET i == k - 1
                        IN  [date |-> FormatISO(forecast_date(today, i)),
                             temperature_celsius |->
                                 current.temperature_celsius + ((i % 3) - 1) * 10,
                             temperature_fahrenheit |->
                                 ((current.temperature_celsius + ((i % 3) - 1) * 10) * 9)
                                     \div 5 + 320,
                             description |-> current.description,
                             humidity |-> current.humidity,
                             wind_speed |-> current.wind_speed]]),
                   invoked |-> cur.invoked]
        ELSE [ret |-> Returned(get_mock_forecast(city, num_days, today)),
              invoked |-> cur.invoked]

---------------------------------------------------------------------------
(* The environment: configuration, calendar dates, city names              *)

Paris == <<"P","a","r","i","s">>

\* every configuration of the three settings, and current dates: mid-month,
\* the days around the 28th, month ends, a leap February, December
WeatherSettings ==
    [config : [GOOGLE_API_KEY : {None, "google-key"},
               ACCUWEATHER_API_KEY : {None, "", PlaceholderKey, "accuweather-key"},
               USE_MOCK_DATA : BOOLEAN],
     now : {Date(2025, 6, 15), Date(2025, 11, 27), Date(2024, 2, 27), Date(2025, 1, 31),
            Date(2025, 12, 20), Date(2025, 12, 28), Date(2025, 12, 31)}]

---------------------------------------------------------------------------
(* What the external weather service does when it is invoked               *)

\* the texts: every combination of a temperature, a humidity, a wind and a
\* condition token being present or missing, and four texts of other shapes
WeatherOutcomes ==
    {[kind |-> "timeout"], [kind |-> "raise"], [kind |-> "loop_error"],
     [kind |-> "result", has_content |-> FALSE]}
    \cup {[kind |-> "result", has_content |-> TRUE, content |-> c] :
            c \in
                {[is_list |-> FALSE, items |-> <<>>],
                 [is_list |-> TRUE, items |-> <<>>],
                 [is_list |-> TRUE, items |-> <<[text |-> NoneText]>>],
                 [is_list |-> TRUE, items |-> <<[repr |-> <<"I","m","a","g","e">>]>>]}
                \cup {[is_list |-> TRUE, items |-> <<[text |-> t \o h \o w \o d]>>] :
                        t \in {<<>>, <<"2","2","deg","C"," ","7","2","deg","F"," ">>},
                        h \in {<<>>, <<"6","0","%"," ">>},
                        w \in {<<>>, <<"5"," ","m","/","s"," ">>,
                               <<"W","i","n","d"," ","1","2",".","5"," ","K","M","/","H"," ">>},
                        d \in {<<>>, <<"s","u","n","n","y">>, <<"P","a","r","t","l","y"," ","C","l","o","u","d","y">>}}
                \cup {[is_list |-> TRUE, items |-> <<[text |-> t]>>] :
                        t \in {<<"2","2","deg","C"," ","7","2","deg","F"," ","6","0","%"," ","5"," ","m","/","s"," ","c","l","o","u","d","y">>,
                               <<"P","a","r","t","l","y"," ","C","l","o","u","d","y",","," ","1","8","deg","C",","," ","w","i","n","d"," ","1","2",".","5"," ","k","m","/","h">>,
                               <<"n","o"," ","d","a","t","a">>,
                               <<"7","%"," ","3",".","1","2",".","5","m","p","h"," ","1","deg","C","9","deg","F">>}}}

\* the outcomes after which the adapter has no content to normalise
WeatherFailed(e) ==
    \/ e.kind \in {"timeout", "raise", "loop_error"}
    \/ e.kind = "result" /\ ~e.has_content

---------------------------------------------------------------------------
(* The weather adapter on its own: a WeatherTool and calls of its two      *)
(* public methods                                                          *)

MaxForecastDays == 5

InitWeather ==
    /\ \E s \in WeatherSettings : config = s.config /\ now = s.now
    /\ tools = [constructed |-> TRUE, weather |-> WeatherTool(config)]
    /\ session = NoSession
    /\ pc = "idle"
    /\ req = NoReq
    /\ loc = NoLoc
    /\ ret = NoRet
    /\ ext = NoExt

GetCurrentWeather(city, units, e) ==
    LET r == get_current_weather(tools.weather, city, units, e)
    IN  /\ pc = "idle"
        /\ pc' = "returned"
        /\ req' = [op |-> "get_current_weather", city |-> city, units |-> units,
                   outcome |-> e]
        /\ ret' = Returned(r.value)
        /\ ext' = [NoExt EXCEPT !.weather = r.invoked]
        /\ UNCHANGED <<config, now, session, loc, tools>>

GetForecast(city, num_days, e) ==
    LET r == get_forecast(tools.weather, city, num_days, e, now)
    IN  /\ pc = "idle"
        /\ pc' = "returned"
        /\ req' = [op |-> "get_forecast", city |-> city, num_days |-> num_days,
                   outcome |-> e]
        /\ ret' = r.ret
        /\ ext' = [NoExt EXCEPT !.weather = r.invoked]
        /\ UNCHANGED <<config, now, session, loc, tools>>

NextWeather ==
    \/ \E e \in WeatherOutcomes, units \in {"metric", "imperial"} :
            GetCurrentWeather(Paris, units, e)
    \/ \E e \in WeatherOutcomes, n \in 0..MaxForecastDays :
            GetForecast(Paris, n, e)

SpecWeather == InitWeather /\ [][NextWeather]_vars

\* the synthetic reading: 24.5 C, 76.1 F, partly cloudy, 65 %, 12.5 km/h
IsSyntheticReading(w) ==
    /\ w.temperature_celsius = 245
    /\ w.temperature_fahrenheit = 761
    /\ w.description = PartlyCloudy
    /\ w.humidity = 65
    /\ w.wind_speed = 125
    /\ w.feels_like_celsius = 238

\* C2: get_current_weather never raises and returns one record with a source
\* tag; when the external call times out, raises, cannot be started or returns
\* a result without content, the record is the synthetic reading for the city
\* asked for and its source tag does not contain 'MCP'
C2_CurrentWeatherNeverRaises ==
    (pc = "returned" /\ req.op = "get_current_weather") =>
        /\ ret.kind = "returned"
        /\ "source" \in DOMAIN ret.value
        /\ ret.value.city = req.city
        /\ WeatherFailed(req.outcome) =>
              /\ IsSyntheticReading(ret.value)
              /\ ~Contains(ret.value.source, MCP)

\* C2 witness: a tool in real mode whose external call was invoked and raised
C2_Witness ==
    /\ pc = "returned"
    /\ req.op = "get_current_weather"
    /\ ~tools.weather.use_mock
    /\ req.outcome.kind = "raise"
    /\ ext.weather = 1
    /\ ret.kind = "returned"
    /\ ret.value.source = SourceMockWeather

\* C5: with use_mock_data true, get_current_weather and get_forecast return
\* synthetic data and never invoke the external weather service, whatever the
\* API key
C5_UseMockDataForcesSynthetic ==
    (config.USE_MOCK_DATA /\ pc = "returned") =>
        /\ ext.weather = 0
        /\ ret.kind = "returned"
        /\ req.op = "get_current_weather" =>
              IsSyntheticReading(ret.value) /\ ~Contains(ret.value.source, MCP)
        /\ req.op = "get_forecast" =>
              ret.value = get_mock_forecast(req.city, req.num_days, now)

\* the service answered with a non-empty list whose first item has a text
AnsweredWithText ==
    /\ pc = "returned"
    /\ req.op = "get_current_weather"
    /\ ~tools.weather.use_mock
    /\ req.outcome.kind = "result"
    /\ req.outcome.has_content
    /\ req.outcome.content.is_list
    /\ req.outcome.content.items # <<>>
    /\ "text" \in DOMAIN req.outcome.content.items[1]
    /\ req.outcome.content.items[1].text # NoneText

\* s[i..j-1] is a run of digits that no digit precedes, followed by suffix
IsToken(s, i, j, suffix) ==
    /\ i = 1 \/ ~IsDigit(s[i - 1])
    /\ \A k \in i..(j - 1) : IsDigit(s[k])
    /\ HasAt(s, j, suffix)

\* the number of the first token NN<suffix> of s, or default when s has none
TokenValue(s, suffix, default) ==
    LET starts == {i \in DOMAIN s :
                      IsDigit(s[i]) /\ \E j \in (i + 1)..Len(s) : IsToken(s, i, j, suffix)}
    IN  IF starts = {} THEN default
        ELSE LET i == Min(starts)
                 j == CHOOSE j \in (i + 1)..Len(s) : IsToken(s, i, j, suffix)
             IN  DigitsToInt(SubSeq(s, i, j - 1))

\* x is digits, optionally followed by a point and more digits
IsDecimal(x) ==
    /\ x # <<>>
    /\ IsDigit(x[1])
    /\ \A k \in DOMAIN x : IsDigit(x[k]) \/ x[k] = "."
    /\ Cardinality({k \in DOMAIN x : x[k] = "."}) <= 1

\* s[i..e-1] is a decimal that reaches up to the whitespace before a unit of
\* speed
IsWindToken(s, i, e) ==
    /\ IsDecimal(SubSeq(s, i, e - 1))
    /\ e > Len(s) \/ ~(IsDigit(s[e]) \/ s[e] = ".")
    /\ \E u \in e..Len(s) :
          /\ \A k \in e..(u - 1) : s[k] \in Whitespace
          /\ \E n \in DOMAIN WindUnits : HasAt(s, u, WindUnits[n])

\* the tenths of the first decimal before a unit of speed in s, lower-cased,
\* or 100 when there is none
WindValue(s) ==
    LET l == Lower(s)
        starts == {i \in DOMAIN l :
                      IsDigit(l[i]) /\ \E e \in (i + 1)..(Len(l) + 1) : IsWindToken(l, i, e)}
    IN  IF starts = {} THEN 100
        ELSE LET i == Min(starts)
                 e == CHOOSE e \in (i + 1)..(Len(l) + 1) : IsWindToken(l, i, e)
                 x == SubSeq(l, i, e - 1)
                 points == {k \in DOMAIN x : x[k] = "."}
                 whole == IF points = {} THEN x ELSE SubSeq(x, 1, Min(points) - 1)
                 tenth == IF points = {} \/ Min(points) = Len(x) THEN 0
                          ELSE DigitVal(x[Min(points) + 1])
             IN  10 * DigitsToInt(whole) + tenth

\* C13: in a record normalised from a text, each of the four fields comes
\* from its own token alone: the temperature (in tenths) from the first NNdegC
\* token (NNdegF for imperial units, and for the Fahrenheit field), the
\* humidity from the first NN% token, the wind speed from the first number
\* before mph, km/h or m/s, the description a condition keyword that occurs
\* in the text; a missing token gives 20.0 (68.0), 65, 10.0 and 'moderate
\* weather' and the source tag stays the real one
C13_FieldsIndependent ==
    AnsweredWithText =>
        LET text == req.outcome.content.items[1].text
            w == ret.value
        IN  /\ w.source = SourceMCPWeather
            /\ req.units = "metric" =>
                  /\ w.temperature_celsius = 10 * TokenValue(text, <<"deg", "C">>, 20)
                  /\ w.temperature_fahrenheit = 10 * TokenValue(text, <<"deg", "F">>, 68)
            /\ req.units = "imperial" =>
                  w.temperature_celsius = 10 * TokenValue(text, <<"deg", "F">>, 68)
            /\ w.humidity = TokenValue(text, <<"%">>, 65)
            /\ w.wind_speed = WindValue(text)
            /\ IF \E k \in DOMAIN conditions : Contains(Lower(text), conditions[k])
               THEN /\ w.description \in Range(conditions)
                    /\ Contains(Lower(text), w.description)
               ELSE w.description = <<"m","o","d","e","r","a","t","e"," ","w","e","a","t",
                                      "h","e","r">>

\* C13 witness: a text with a humidity and a wind token and neither a
\* temperature nor a condition
C13_Witness ==
    /\ AnsweredWithText
    /\ req.units = "metric"
    /\ ret.value.temperature_celsius = 200
    /\ ret.value.temperature_fahrenheit = 680
    /\ ret.value.humidity = 60
    /\ ret.value.wind_speed = 125
    /\ ~(\E k \in DOMAIN conditions :
            Contains(Lower(req.outcome.content.items[1].text), conditions[k]))
    /\ ret.value.source = SourceMCPWeather

\* C14: a text from which no temperature, humidity, wind or condition token
\* can be extracted gives the synthetic reading with the mock source tag
C14_NothingExtractableFallsBack ==
    (/\ AnsweredWithText
     /\ TokenValue(req.outcome.content.items[1].text, <<"deg", "C">>, 0 - 1) = 0 - 1
     /\ TokenValue(req.outcome.content.items[1].text, <<"deg", "F">>, 0 - 1) = 0 - 1
     /\ TokenValue(req.outcome.content.items[1].text, <<"%">>, 0 - 1) = 0 - 1
     /\ WindValue(req.outcome.content.items[1].text) = 100
     /\ ~(\E k \in DOMAIN conditions :
             Contains(Lower(req.outcome.content.items[1].text), conditions[k])))
    => /\ IsSyntheticReading(ret.value)
       /\ ret.value.source = SourceMockWeather

\* C17: a forecast that get_forecast returns has one entry per requested
\* day, entry i (0-based) dated the current date + i days, so the dates are
\* distinct, increasing and consecutive
C17_ForecastDatesConsecutive ==
    (pc = "returned" /\ req.op = "get_forecast" /\ ret.kind = "returned") =>
        /\ Len(ret.value) = req.num_days
        /\ \A i \in 0..(req.num_days - 1) :
              ret.value[i + 1].date = FormatISO(AddDays(now, i))

\* C28: in every weather record the adapter returns with both temperatures
\* present (the current reading requested in metric units, real or synthetic,
\* and every forecast entry), temperature_fahrenheit equals
\* temperature_celsius * 9/5 + 32 (temperatures are in tenths here)
C28_FahrenheitDerivedFromCelsius ==
    /\ (pc = "returned" /\ req.op = "get_current_weather" /\ req.units = "metric") =>
            5 * ret.value.temperature_fahrenheit =
                9 * ret.value.temperature_celsius + 5 * 320
    /\ (pc = "returned" /\ req.op = "get_forecast" /\ ret.kind = "returned") =>
            \A k \in 1..Len(ret.value) :
                5 * ret.value[k].temperature_fahrenheit =
                    9 * ret.value[k].temperature_celsius + 5 * 320

\* C29: each of the seven known condition keywords is a possible result of
\* the description extractor; in particular a text whose only condition
\* phrase is 'partly cloudy' yields the description 'partly cloudy'
C29_PartlyCloudyExtracted ==
    (/\ AnsweredWithText
     /\ req.op = "get_current_weather"
     /\ Contains(Lower(ItemText(req.outcome.content.items[1])), PartlyCloudy)
     /\ \A k \in DOMAIN conditions :
           (conditions[k] # PartlyCloudy /\ conditions[k] # Cloudy) =>
               ~Contains(Lower(ItemText(req.outcome.content.items[1])), conditions[k])) =>
        ret.value.description = PartlyCloudy

---------------------------------------------------------------------------
(* tools/flight_tool.py                                                    *)

SourceKiwiReal ==
    <<"K","i","w","i"," ","M","C","P"," ","S","e","r","v","e","r"," ","(","R","e","a",
      "l"," ","D","a","t","a",")">>
SourceKiwiMock ==
    <<"M","o","c","k"," ","D","a","t","a"," ","(","K","i","w","i"," ","M","C","P"," ",
      "S","e","r","v","e","r"," ","u","n","a","v","a","i","l","a","b","l","e",")">>
SourceKiwiFlight ==
    <<"K","i","w","i",".","c","o","m"," ","M","C","P"," ","S","e","r","v","e","r">>

\* s[-8:-3]
SliceTime(s) ==
    SubSeq(s, Max({Len(s) - 8, 0}) + 1, Max({Len(s) - 3, 0}))

\* dict.get(key, default) on a decoded JSON object
Get(d, key, default) == IF key \in DOMAIN d THEN d[key] ELSE default

\* list.sort(key=lambda x: x['price']): a stable insertion sort
RECURSIVE InsertByPrice(_, _)
InsertByPrice(sorted, f) ==
    IF sorted = <<>> THEN <<f>>
    ELSE IF sorted[Len(sorted)].price <= f.price THEN Append(sorted, f)
         ELSE Append(InsertByPrice(SubSeq(sorted, 1, Len(sorted) - 1), f),
                     sorted[Len(sorted)])
NoSort(fs) == fs
RECURSIVE SortByPrice(_)
SortByPrice(fs) ==
    IF fs = <<>> THEN <<>>
    ELSE InsertByPrice(SortByPrice(SubSeq(fs, 1, Len(fs) - 1)), fs[Len(fs)])

search_params(fly_from, fly_to, departure_date, return_date) ==
    [from |-> fly_from, to |-> fly_to, departure |-> departure_date,
     return |-> return_date]

\* _generate_mock_flights; rnd holds the draws of the random module: the
\* price offset, the airline index and the stops index of each of the flights
generate_mock_flights(fly_from, fly_to, departure_date, return_date, rnd) ==
    LET outbound == SortByPrice([k \in 1..5 |->
            LET i == k - 1
                hour == 6 + i * 3
            IN  [flight_number |-> <<"K", "W">> \o Pad(1000 + i, 1),
                 airline |-> <<"Kiwi Airlines", "AirFly", "SkyConnect">>[rnd.airline[i + 1]],
                 origin |-> fly_from,
                 destination |-> fly_to,
                 departure_date |-> departure_date,
                 departure_time |-> Pad(hour, 2) \o <<":", "0", "0">>,
                 arrival_date |-> departure_date,
                 arrival_time |-> Pad(hour + 6, 2) \o <<":", "0", "0">>,
                 duration |-> "6h 0m",
                 stops |-> <<0, 0, 1>>[rnd.stops[i + 1]],
                 price |-> 300 + rnd.price[i + 1],
                 currency |-> "USD",
                 source |-> <<"M","o","c","k"," ","D","a","t","a">>]])
        flights == [outbound_flights |-> outbound,
                    source |-> SourceKiwiMock,
                    search_params |->
                        search_params(fly_from, fly_to, departure_date, return_date)]
    IN  IF return_date # NoneText /\ return_date # <<>>
        THEN flights @@ [return_flights |-> SubSeq(outbound, 1, 3)]
        ELSE flights

\* _parse_single_kiwi_flight: the flight record, or None when reading the entry
\* raises (the entry is no object, its airlines list is empty, a date is no
\* string).  None is [parsed |-> FALSE]; h is hash(str(flight_data)) % 10000.
parse_single_kiwi_flight(flight_data, fly_from, fly_to, h) ==
    IF \/ ~flight_data.is_dict
       \/ Get(flight_data, "airlines", <<"Kiwi Airlines">>) = <<>>
       \/ Get(flight_data, "local_departure", <<>>) = NoneText
       \/ Get(flight_data, "local_arrival", <<>>) = NoneText
    THEN [parsed |-> FALSE]
    ELSE [parsed |-> TRUE,
          flight |->
            [flight_number |-> Get(flight_data, "id", <<"K", "W">> \o Pad(h, 1)),
             airline |-> Get(flight_data, "airlines", <<"Kiwi Airlines">>)[1],
             origin |-> fly_from,
             destination |-> fly_to,
             departure_date |-> Prefix(Get(flight_data, "local_departure", <<>>), 10),
             departure_time |-> SliceTime(Get(flight_data, "local_departure", <<>>)),
             arrival_date |-> Prefix(Get(flight_data, "local_arrival", <<>>), 10),
             arrival_time |-> SliceTime(Get(flight_data, "local_arrival", <<>>)),
             duration |-> Get(flight_data, "fly_duration", "N/A"),
             stops |-> Len(Get(flight_data, "route", <<>>)) - 1,
             price |-> Get(flight_data, "price", 0),
             currency |-> Get(flight_data, "currency", "USD"),
             deep_link |-> Get(flight_data, "deep_link", "https://www.kiwi.com"),
             source |-> SourceKiwiFlight]]

\* [:5], the cap on what is read from a real response
TopAll(xs) == xs
TopFive(xs) == Prefix(xs, 5)

\* re.findall(r'\$(\d+)', text) from position i on
RECURSIVE FindPrices(_, _)
FindPrices(text, i) ==
    IF i >= Len(text) THEN <<>>
    ELSE IF text[i] = "$" /\ IsDigit(text[i + 1])
         THEN <<SubSeq(text, i + 1, RunEnd(text, i + 1, DOMAIN DigitMap) - 1)>>
                  \o FindPrices(text, RunEnd(text, i + 1, DOMAIN DigitMap))
         ELSE FindPrices(text, i + 1)

\* _parse_text_response
parse_text_response_mock_hours(text, fly_from, fly_to, date) ==
    LET price_matches == TopFive(FindPrices(text, 1))
    IN  [k \in 1..Len(price_matches) |->
            LET i == k - 1
            IN  [flight_number |-> <<"K", "W">> \o Pad(1000 + i, 1),
                 airline |-> "Kiwi Airlines",
                 origin |-> fly_from,
                 destination |-> fly_to,
                 departure_date |-> date,
                 departure_time |-> Pad(6 + i * 3, 1) \o <<":", "0", "0">>,
                 arrival_date |-> date,
                 arrival_time |-> Pad(12 + i * 3, 1) \o <<":", "0", "0">>,
                 duration |-> "6h 0m",
                 stops |-> 0,
                 price |-> DigitsToInt(price_matches[k]),
                 currency |-> "USD",
                 source |-> SourceKiwiFlight,
                 raw_info |-> Prefix(text, 200)]]
parse_text_response(text, fly_from, fly_to, date) ==
    LET price_matches == TopFive(FindPrices(text, 1))
    IN  [k \in 1..Len(price_matches) |->
            LET i == k - 1
            IN  [flight_number |-> <<"K", "W">> \o Pad(1000 + i, 1),
                 airline |-> "Kiwi Airlines",
                 origin |-> fly_from,
                 destination |-> fly_to,
                 departure_date |-> date,
                 departure_time |-> Pad(8 + i * 2, 1) \o <<":", "0", "0">>,
                 arrival_date |-> date,
                 arrival_time |-> Pad(14 + i * 2, 1) \o <<":", "0", "0">>,
                 duration |-> "6h 0m",
                 stops |-> 0,
                 price |-> DigitsToInt(price_matches[k]),
                 currency |-> "USD",
                 source |-> SourceKiwiFlight,
                 raw_info |-> Prefix(text, 200)]]

\* the loop of lines 173-176: the parsable entries among the first five
RECURSIVE parse_entries(_, _, _, _)
parse_entries(entries, fly_from, fly_to, h) ==
    IF entries = <<>> THEN <<>>
    ELSE LET p == parse_single_kiwi_flight(entries[Len(entries)], fly_from, fly_to, h)
             before == parse_entries(SubSeq(entries, 1, Len(entries) - 1),
                                     fly_from, fly_to, h)
         IN  IF p.parsed THEN Append(before, p.flight) ELSE before

\* _parse_kiwi_response.  content is [is_list, items]; an item carries its text
\* and loads, what json.loads makes of that text: [ok |-> FALSE] for a
\* JSONDecodeError, else the decoded value
parse_kiwi_response_text_after_json(content, fly_from, fly_to, departure_date, return_date, h, rnd) ==
    LET mock == generate_mock_flights(fly_from, fly_to, departure_date, return_date, rnd)
        flights_data ==
            [outbound_flights |-> <<>>,
             source |-> SourceKiwiReal,
             search_params |->
                 search_params(fly_from, fly_to, departure_date, return_date)]
    IN  IF ~content.is_list \/ content.items = <<>> THEN mock
        ELSE LET item == content.items[1]
                 response_text == ItemText(item)
                 from_text == parse_text_response(response_text, fly_from, fly_to,
                                                  departure_date)
                 text_flights ==
                     IF from_text # <<>>
                     THEN [flights_data EXCEPT !.outbound_flights = from_text]
                              @@ [raw_response |-> response_text]
                     ELSE mock
             IN  IF response_text = NoneText THEN mock
                 ELSE IF item.loads.ok
                 THEN LET flight_results == item.loads.value
                      IN  IF flight_results.type = "dict" /\ flight_results.has_data
                          THEN IF ~flight_results.data.is_list THEN text_flights
                               ELSE LET parsed ==
                                          parse_entries(
                                              TopFive(flight_results.data.entries),
                                              fly_from, fly_to, h)
                                    IN  IF parsed # <<>>
                                        THEN [flights_data EXCEPT
                                                 !.outbound_flights = parsed]
                                        ELSE text_flights
                          ELSE text_flights
                 ELSE LET parsed == parse_text_response(response_text, fly_from,
                                                        fly_to, departure_date)
                      IN  IF parsed # <<>>
                          THEN [flights_data EXCEPT !.outbound_flights = parsed]
                                   @@ [raw_response |-> response_text]
                          ELSE mock
parse_kiwi_response(content, fly_from, fly_to, departure_date, return_date, h, rnd) ==
    LET mock == generate_mock_flights(fly_from, fly_to, departure_date, return_date, rnd)
        flights_data ==
            [outbound_flights |-> <<>>,
             source |-> SourceKiwiReal,
             search_params |->
                 search_params(fly_from, fly_to, departure_date, return_date)]
    IN  IF ~content.is_list \/ content.items = <<>> THEN mock
        ELSE LET item == content.items[1]
                 response_text == ItemText(item)
             IN  IF response_text = NoneText THEN mock
                 ELSE IF item.loads.ok
                 THEN LET flight_results == item.loads.value
                      IN  IF flight_results.type = "dict" /\ flight_results.has_data
                          THEN IF ~flight_results.data.is_list THEN mock
                               ELSE LET parsed ==
                                          parse_entries(
                                              TopFive(flight_results.data.entries),
                                              fly_from, fly_to, h)
                                    IN  IF parsed # <<>>
                                        THEN [flights_data EXCEPT
                                                 !.outbound_flights = parsed]
                                        ELSE mock
                          ELSE mock
                 ELSE LET parsed == parse_text_response(response_text, fly_from,
                                                        fly_to, departure_date)
                      IN  IF parsed # <<>>
                          THEN [flights_data EXCEPT !.outbound_flights = parsed]
                                   @@ [raw_response |-> response_text]
                          ELSE mock

\* _call_kiwi_mcp: one invocation of the external service, e being what the
\* service does
call_kiwi_mcp(departure_date, fly_from, fly_to, return_date, e, rnd) ==
    CASE e.kind = "timeout" ->
            generate_mock_flights(fly_from, fly_to, departure_date, return_date, rnd)
      [] e.kind = "raise" ->
            generate_mock_flights(fly_from, fly_to, departure_date, return_date, rnd)
      [] e.kind = "result" ->
            IF e.has_content
            THEN parse_kiwi_response(e.content, fly_from, fly_to, departure_date,
                                     return_date, e.hash, rnd)
            ELSE generate_mock_flights(fly_from, fly_to, departure_date,
                                       return_date, rnd)

\* search_flights: the result and the number of invocations of the external
\* service; e.kind = "loop_error" is the event loop failing to start
search_flights(departure_date, fly_from, fly_to, return_date, e, rnd) ==
    IF e.kind = "loop_error"
    THEN [value |-> generate_mock_flights(fly_from, fly_to, departure_date,
                                          return_date, rnd),
          invoked |-> 0]
    ELSE [value |-> call_kiwi_mcp(departure_date, fly_from, fly_to, return_date,
                                  e, rnd),
          invoked |-> 1]

\* get_best_flights: the first num_results flights, in the order search_flights
\* gave them
get_best_flights_whole_return(departure_date, fly_from, fly_to, return_date, num_results, e, rnd) ==
    LET s == search_flights(departure_date, fly_from, fly_to, return_date, e, rnd)
        all_flights == s.value
        result == [outbound_flights |-> Prefix(all_flights.outbound_flights, num_results),
                   source |-> all_flights.source,
                   search_params |-> all_flights.search_params]
    IN  [value |-> IF "return_flights" \in DOMAIN all_flights
                   THEN result @@ [return_flights |-> all_flights.return_flights]
                   ELSE result,
         invoked |-> s.invoked]
get_best_flights(departure_date, fly_from, fly_to, return_date, num_results, e, rnd) ==
    LET s == search_flights(departure_date, fly_from, fly_to, return_date, e, rnd)
        all_flights == s.value
        result == [outbound_flights |-> Prefix(all_flights.outbound_flights, num_results),
                   source |-> all_flights.source,
                   search_params |-> all_flights.search_params]
    IN  [value |-> IF "return_flights" \in DOMAIN all_flights
                   THEN result @@ [return_flights |->
                                      Prefix(all_flights.return_flights, num_results)]
                   ELSE result,
         invoked |-> s.invoked]

---------------------------------------------------------------------------
(* What the external flight service does when it is invoked: the text of    *)
(* each payload with what json.loads makes of it                           *)

JsonTwoFlights ==
    [text |-> <<"{","\"","d","a","t","a","\"",":","[","{","\"","i","d","\"",
               ":","\"","F","1","\"",",","\"","l","o","c","a","l","_","d",
               "e","p","a","r","t","u","r","e","\"",":","\"","2","0","2","5",
               "-","0","6","-","1","7","T","2","1",":","0","5",":","0","0",
               "\"",",","\"","p","r","i","c","e","\"",":","4","5","0",",",
               "\"","r","o","u","t","e","\"",":","[","1",",","2","]","}",",",
               "{","\"","a","i","r","l","i","n","e","s","\"",":","[","\"",
               "A","F","\"","]",",","\"","p","r","i","c","e","\"",":","3",
               "0","0",",","\"","r","o","u","t","e","\"",":","[","1","]","}",
               "]","}">>,
     loads |-> [ok |-> TRUE, value |-> [type |-> "dict", has_data |-> TRUE,
             data |-> [is_list |-> TRUE, entries |-> <<
                 [is_dict |-> TRUE, id |-> <<"F","1">>,
                  local_departure |-> <<"2","0","2","5","-","0","6","-","1",
                  "7","T","2","1",":","0","5",":","0","0">>, price |-> 450,
                  route |-> <<1, 2>>],
                 [is_dict |-> TRUE, airlines |-> <<"AF">>, price |-> 300,
                  route |-> <<1>>]>>]]]]
TextSixPrices ==
    [text |-> <<"$","5"," ","$","4","0"," ","$","3"," ","$","2"," ","$","1",
               " ","$","6">>,
     loads |-> [ok |-> FALSE]]

FlightOutcomes ==
    {[kind |-> "timeout"], [kind |-> "raise"], [kind |-> "loop_error"],
     [kind |-> "result", has_content |-> FALSE]}
    \cup {[kind |-> "result", has_content |-> TRUE, content |-> c, hash |-> 4711] :
            c \in
                {[is_list |-> FALSE, items |-> <<>>],
                 [is_list |-> TRUE, items |-> <<>>],
                 [is_list |-> TRUE, items |-> <<[text |-> NoneText]>>],
                 [is_list |-> TRUE,
                  items |-> <<[repr |-> <<"I","m","a","g","e"," ","$","7","5">>,
                               loads |-> [ok |-> FALSE]]>>]}
                \cup {[is_list |-> TRUE, items |-> <<i>>] : i \in {[text |-> <<"\"","$","3","0","0","\"">>,
                        loads |-> [ok |-> TRUE, value |-> [type |-> "other"]]], [text |-> <<"{","\"","p",
                        "r","i","c","e","\"",":","\"","$","2","5","0", "\"","}">>, loads |-> [ok |-> TRUE,
                        value |-> [type |-> "dict", has_data |-> FALSE]]], [text |-> <<"{","\"","d","a","t",
                        "a","\"",":","{","\"","p","\"",":", "\"","$","9","\"","}","}">>,
                        loads |-> [ok |-> TRUE, value |-> [type |-> "dict", has_data |-> TRUE,
                        data |-> [is_list |-> FALSE]]]], [text |-> <<"{","\"","d","a","t","a","\"",":","[",
                        "]","}">>, loads |-> [ok |-> TRUE, value |-> [type |-> "dict", has_data |-> TRUE,
                        data |-> [is_list |-> TRUE, entries |-> << >>]]]], JsonTwoFlights, [text |-> <<"{",
                        "\"","d","a","t","a","\"",":","[","{","}",",","5",",", "{","\"","a","i","r","l","i",
                        "n","e","s","\"",":","[","]","}", ",","{","\"","p","r","i","c","e","\"",":","-","2",
                        "0",",", "\"","r","o","u","t","e","\"",":","[","1",",","2",",","3","]", "}",",","{",
                        "\"","l","o","c","a","l","_","a","r","r","i","v", "a","l","\"",":","n","u","l","l",
                        "}","]","}">>, loads |-> [ok |-> TRUE, value |-> [type |-> "dict",
                        has_data |-> TRUE, data |-> [is_list |-> TRUE, entries |-> << [is_dict |-> TRUE],
                        [is_dict |-> FALSE], [is_dict |-> TRUE, airlines |-> <<>>], [is_dict |-> TRUE,
                        price |-> -20, route |-> <<1, 2, 3>>], [is_dict |-> TRUE,
                        local_arrival |-> NoneText]>>]]]], [text |-> <<"{","\"","d","a","t","a","\"",":",
                        "[","\"","$","5","\"",",","{","\"","a", "i","r","l","i","n","e","s","\"",":","[","]","}","]",
                        "}">>, loads |-> [ok |-> TRUE, value |-> [type |-> "dict", has_data |-> TRUE,
                        data |-> [is_list |-> TRUE, entries |-> << [is_dict |-> FALSE], [is_dict |-> TRUE,
                        airlines |-> <<>>]>>]]]], [text |-> <<"{","\"","d","a","t","a","\"",":","[","{",
                        "\"","p","r","i", "c","e","\"",":","1","0","0",",","\"","r","o","u","t","e", "\"",
                        ":","[","1","]","}",",","{","\"","p","r","i","c","e", "\"",":","9","0",",","\"","r",
                        "o","u","t","e","\"",":","[", "1","]","}",",","{","\"","p","r","i","c","e","\"",":",
                        "8","0", ",","\"","r","o","u","t","e","\"",":","[","1","]","}",",","{", "\"","p",
                        "r","i","c","e","\"",":","7","0",",","\"","r","o", "u","t","e","\"",":","[","1","]",
                        "}",",","{","\"","p","r","i", "c","e","\"",":","6","0",",","\"","r","o","u","t","e",
                        "\"", ":","[","1","]","}",",","{","\"","p","r","i","c","e","\"",":", "5","0",",",
                        "\"","r","o","u","t","e","\"",":","[","1","]","}", "]","}">>,
                        loads |-> [ok |-> TRUE, value |-> [type |-> "dict", has_data |-> TRUE,
                        data |-> [is_list |-> TRUE, entries |-> << [is_dict |-> TRUE, price |-> 100,
                        route |-> <<1>>], [is_dict |-> TRUE, price |-> 90, route |-> <<1>>],
                        [is_dict |-> TRUE, price |-> 80, route |-> <<1>>], [is_dict |-> TRUE, price |-> 70,
                        route |-> <<1>>], [is_dict |-> TRUE, price |-> 60, route |-> <<1>>],
                        [is_dict |-> TRUE, price |-> 50, route |-> <<1>>]>>]]]], [text |-> <<"F","l","i",
                        "g","h","t","s",":"," ","$","4","8","0",","," ", "$","3","2","0">>,
                        loads |-> [ok |-> FALSE]], TextSixPrices, [text |-> <<"n","o"," ","f","l","i","g",
                        "h","t","s"," ","f","o","u","n", "d"," ","$">>, loads |-> [ok |-> FALSE]]}}}

\* the draws of the random module in one _generate_mock_flights
FlightDraws ==
    {[price |-> p, airline |-> x, stops |-> x] :
        p \in {<<0, 0, 0, 0, 0>>, <<50, -20, 199, -99, 50>>, <<-100, -100, -100, -100, -100>>,
                <<200, 200, 200, 200, 200>>, <<200, 100, 0, -50, -100>>, <<-100, 200, -100, 200,
                -100>>, <<-100, -50, 0, 100, 200>>, <<200, -100, -100, 200, 0>>}, x \in {<<1, 1,
                1, 1, 1>>, <<3, 2, 1, 3, 2>>}}

---------------------------------------------------------------------------
(* The flight adapter on its own: calls of search_flights and              *)
(* get_best_flights                                                        *)

MaxResults == 6

NYC == <<"N", "Y", "C">>
PAR == <<"P", "A", "R">>

InitTools ==
    /\ config = [GOOGLE_API_KEY |-> None, ACCUWEATHER_API_KEY |-> None,
                 USE_MOCK_DATA |-> FALSE]
    /\ now = Date(2025, 6, 15)
    /\ tools = [constructed |-> TRUE]
    /\ session = NoSession
    /\ pc = "idle"
    /\ req = NoReq
    /\ loc = NoLoc
    /\ ret = NoRet
    /\ ext = NoExt

SearchFlights(departure_date, return_date, e, rnd) ==
    LET r == search_flights(departure_date, NYC, PAR, return_date, e, rnd)
    IN  /\ pc = "idle"
        /\ pc' = "returned"
        /\ req' = [op |-> "search_flights", departure_date |-> departure_date,
                   fly_from |-> NYC, fly_to |-> PAR, return_date |-> return_date,
                   outcome |-> e]
        /\ ret' = Returned(r.value)
        /\ ext' = [NoExt EXCEPT !.flights = r.invoked]
        /\ UNCHANGED <<config, now, session, loc, tools>>

GetBestFlights(departure_date, return_date, num_results, e, rnd) ==
    LET r == get_best_flights(departure_date, NYC, PAR, return_date, num_results,
                              e, rnd)
    IN  /\ pc = "idle"
        /\ pc' = "returned"
        /\ req' = [op |-> "get_best_flights", departure_date |-> departure_date,
                   fly_from |-> NYC, fly_to |-> PAR, return_date |-> return_date,
                   num_results |-> num_results, outcome |-> e]
        /\ ret' = Returned(r.value)
        /\ ext' = [NoExt EXCEPT !.flights = r.invoked]
        /\ UNCHANGED <<config, now, session, loc, tools>>


NextFlight ==
    \/ \E e \in FlightOutcomes, rnd \in FlightDraws, rd \in {NoneText, FormatISO(AddDays(now, 7))} :
            SearchFlights(FormatISO(AddDays(now, 2)), rd, e, rnd)
    \/ \E e \in FlightOutcomes, rnd \in FlightDraws, rd \in {NoneText, FormatISO(AddDays(now, 7))},
          n \in 0..MaxResults :
            GetBestFlights(FormatISO(AddDays(now, 2)), rd, n, e, rnd)

SpecFlight == InitTools /\ [][NextFlight]_vars

IsSortedByPrice(fs) ==
    \A i \in 1..(Len(fs) - 1) : fs[i].price <= fs[i + 1].price

\* C3: search_flights and get_best_flights never raise; for every outcome of
\* the external call search_flights returns one result with a source tag,
\* search_params and between 1 and 5 outbound flights
C3_SearchFlightsNeverRaises ==
    (pc = "returned" /\ req.op \in {"search_flights", "get_best_flights"}) =>
        /\ ret.kind = "returned"
        /\ req.op = "search_flights" =>
              /\ {"source", "search_params", "outbound_flights"}
                     \subseteq DOMAIN ret.value
              /\ ret.value.search_params =
                     search_params(req.fly_from, req.fly_to, req.departure_date,
                                   req.return_date)
              /\ Len(ret.value.outbound_flights) \in 1..5

\* C3 witness: the service answered with six prices in free text, of which the
\* first five came back as real flights
C3_Witness ==
    /\ pc = "returned"
    /\ req.op = "search_flights"
    /\ req.outcome.kind = "result"
    /\ req.outcome.has_content
    /\ req.outcome.content.items = <<TextSixPrices>>
    /\ ret.value.source = SourceKiwiReal
    /\ Len(ret.value.outbound_flights) = 5

\* C9: a synthetic flight set has exactly 5 outbound flights, sorted
\* non-decreasing by price, each price an integer in 200..500
C9_MockFlightsSorted ==
    (/\ pc = "returned"
     /\ req.op = "search_flights"
     /\ ret.value.source = SourceKiwiMock) =>
        /\ Len(ret.value.outbound_flights) = 5
        /\ IsSortedByPrice(ret.value.outbound_flights)
        /\ \A i \in 1..5 : ret.value.outbound_flights[i].price \in 200..500

\* C9 witness: a synthetic set reaching from the lowest to the highest price,
\* in another order than the flights were generated in
C9_Witness ==
    /\ pc = "returned"
    /\ req.op = "search_flights"
    /\ ret.value.source = SourceKiwiMock
    /\ ret.value.outbound_flights[1].price = 200
    /\ ret.value.outbound_flights[5].price = 500
    /\ ret.value.outbound_flights[1].flight_number # <<"K", "W", "1", "0", "0", "0">>

\* C10: the outbound flights get_best_flights returns are sorted
\* non-decreasing by price and are at most num_results, for every outcome of
\* the search
C10_BestFlightsSorted ==
    (pc = "returned" /\ req.op = "get_best_flights") =>
        /\ IsSortedByPrice(ret.value.outbound_flights)
        /\ Len(ret.value.outbound_flights) <= req.num_results

\* the flights of a result, outbound and return
AllFlights(result) ==
    Range(result.outbound_flights)
    \cup (IF "return_flights" \in DOMAIN result THEN Range(result.return_flights) ELSE {})

\* C16: every flight of a search_flights result, real or synthetic, has
\* stops >= 0 and price >= 0
C16_StopsAndPriceNonNegative ==
    (pc = "returned" /\ req.op = "search_flights") =>
        \A f \in AllFlights(ret.value) : f.stops >= 0 /\ f.price >= 0

\* C21: a flight result contains return_flights exactly when it is synthetic
\* and a return date was requested; return_flights is then the first 3 entries
\* of the price-sorted outbound list, the same records with the outbound
\* origin, destination and departure date, and get_best_flights truncates it
\* to num_results like the outbound list
C21_ReturnFlightsReuseOutbound ==
    (pc = "returned" /\ req.op \in {"search_flights", "get_best_flights"}) =>
        LET result == ret.value
            requested == req.return_date # NoneText /\ req.return_date # <<>>
        IN  /\ ("return_flights" \in DOMAIN result) <=>
                    (result.source = SourceKiwiMock /\ requested)
            /\ ("return_flights" \in DOMAIN result) =>
                  /\ IsSortedByPrice(result.outbound_flights)
                  /\ result.return_flights = Prefix(result.outbound_flights, 3)
                  /\ \A f \in Range(result.return_flights) :
                        /\ f.origin = req.fly_from
                        /\ f.destination = req.fly_to
                        /\ f.departure_date = req.departure_date
                  /\ req.op = "search_flights" => Len(result.return_flights) = 3
                  /\ req.op = "get_best_flights" =>
                        Len(result.return_flights) = Min({3, req.num_results})

\* C21 witness: the two best flights of a synthetic round trip, whose return
\* flights are the same two records
C21_Witness ==
    /\ pc = "returned"
    /\ req.op = "get_best_flights"
    /\ req.num_results = 2
    /\ req.return_date # NoneText
    /\ ret.value.source = SourceKiwiMock
    /\ Len(ret.value.return_flights) = 2
    /\ ret.value.return_flights = ret.value.outbound_flights

\* the service answered with a text that json.loads rejects
AnsweredWithFlightText ==
    /\ pc = "returned"
    /\ req.op = "search_flights"
    /\ req.outcome.kind = "result"
    /\ req.outcome.has_content
    /\ req.outcome.content.is_list
    /\ req.outcome.content.items # <<>>
    /\ ItemText(req.outcome.content.items[1]) # NoneText
    /\ ~req.outcome.content.items[1].loads.ok

\* the positions of the tokens $NNN of a text, and the number of the token
\* at position p
PriceTokens(text) ==
    {p \in 1..(Len(text) - 1) : text[p] = "$" /\ IsDigit(text[p + 1])}
PriceAt(text, p) ==
    LET last == Max({q \in (p + 1)..Len(text) :
                        \A j \in (p + 1)..q : IsDigit(text[j])})
    IN  DigitsToInt(SubSeq(text, p + 1, last))

\* the hour of a clock time H:MM or HH:MM
HourOf(t) == DigitsToInt(SubSeq(t, 1, IndexOf(t, ":") - 1))

\* C22: when the flight payload is text that does not decode as JSON and
\* contains k >= 1 tokens of the form $NNN, the result is tagged as real data
\* and has exactly min(k, 5) flights; flight i (0-based) has as price the
\* number of the i-th token in order of appearance, departure hour 8 + 2i,
\* arrival hour 6 hours later, duration '6h 0m' and 0 stops; when k = 0 the
\* result is synthetic
C22_TextPricesBecomeFlights ==
    AnsweredWithFlightText =>
        LET text == ItemText(req.outcome.content.items[1])
            tokens == PriceTokens(text)
            k == Cardinality(tokens)
            token(i) == CHOOSE p \in tokens :
                            Cardinality({q \in tokens : q < p}) = i
            flights == ret.value.outbound_flights
        IN  IF k = 0 THEN ret.value.source = SourceKiwiMock
            ELSE /\ ret.value.source = SourceKiwiReal
                 /\ Len(flights) = Min({k, 5})
                 /\ \A i \in 0..(Len(flights) - 1) :
                        /\ flights[i + 1].price = PriceAt(text, token(i))
                        /\ HourOf(flights[i + 1].departure_time) = 8 + 2 * i
                        /\ HourOf(flights[i + 1].arrival_time) = 8 + 2 * i + 6
                        /\ flights[i + 1].duration = "6h 0m"
                        /\ flights[i + 1].stops = 0

\* C22 witness: a text with two prices gave two real flights, the second one
\* at 320 leaving at 10:00 and arriving at 16:00
C22_Witness ==
    /\ AnsweredWithFlightText
    /\ Cardinality(PriceTokens(ItemText(req.outcome.content.items[1]))) = 2
    /\ ret.value.source = SourceKiwiReal
    /\ Len(ret.value.outbound_flights) = 2
    /\ ret.value.outbound_flights[2].price = 320
    /\ ret.value.outbound_flights[2].departure_time = <<"1", "0", ":", "0", "0">>
    /\ ret.value.outbound_flights[2].arrival_time = <<"1", "6", ":", "0", "0">>

\* the service answered with a text that json.loads accepts
AnsweredWithFlightJson ==
    /\ pc = "returned"
    /\ req.op = "search_flights"
    /\ req.outcome.kind = "result"
    /\ req.outcome.has_content
    /\ req.outcome.content.is_list
    /\ req.outcome.content.items # <<>>
    /\ ItemText(req.outcome.content.items[1]) # NoneText
    /\ req.outcome.content.items[1].loads.ok

\* an entry of the 'data' list that the structured mapping cannot read
Unparsable(entry) ==
    \/ ~entry.is_dict
    \/ "airlines" \in DOMAIN entry /\ entry.airlines = <<>>
    \/ "local_departure" \in DOMAIN entry /\ entry.local_departure = NoneText
    \/ "local_arrival" \in DOMAIN entry /\ entry.local_arrival = NoneText

\* the decoded payload yields no flight through the structured mapping
NoStructuredFlight(value) ==
    \/ value.type # "dict"
    \/ ~value.has_data
    \/ ~value.data.is_list
    \/ \A k \in 1..Min({5, Len(value.data.entries)}) : Unparsable(value.data.entries[k])

\* C26: for flights, text pattern extraction is attempted only when the
\* payload fails to decode as JSON: a payload that decodes as JSON but yields
\* no flight through the structured mapping (not an object, no 'data' list,
\* or no parsable entry among the first 5) leads straight to the synthetic
\* result, even when the payload contains $NNN price tokens
C26_TextOnlyAfterDecodeFailure ==
    AnsweredWithFlightJson =>
        /\ "raw_response" \notin DOMAIN ret.value
        /\ \A k \in 1..Len(ret.value.outbound_flights) :
              "raw_info" \notin DOMAIN ret.value.outbound_flights[k]
        /\ NoStructuredFlight(req.outcome.content.items[1].loads.value) =>
              ret.value.source = SourceKiwiMock

\* C26 witnesses: a JSON payload with a price token and no 'data', and one
\* whose 'data' list has a price token among entries that cannot be read,
\* both answered with the synthetic result
C26_Witness ==
    /\ AnsweredWithFlightJson
    /\ PriceTokens(ItemText(req.outcome.content.items[1])) # {}
    /\ LET value == req.outcome.content.items[1].loads.value
       IN  /\ value.type = "dict"
           /\ value.has_data
           /\ value.data.is_list
           /\ value.data.entries # <<>>
           /\ NoStructuredFlight(value)
    /\ ret.value.source = SourceKiwiMock

\* C30: every synthetic flight has valid clock times: the flight numbered
\* KW(1000+i) departs at hour 6 + 3i and arrives 6 hours later on the same
\* date, the pairing of flight number and departure hour survives the sort by
\* price, and both the departure hour and the arrival hour lie in 0..23
C30_MockFlightClockTimes ==
    (/\ pc = "returned"
     /\ req.op = "search_flights"
     /\ ret.value.source = SourceKiwiMock) =>
        \A f \in AllFlights(ret.value) :
            LET i == DigitsToInt(SubSeq(f.flight_number, 3, Len(f.flight_number))) - 1000
            IN  /\ i \in 0..4
                /\ HourOf(f.departure_time) = 6 + 3 * i
                /\ HourOf(f.arrival_time) = HourOf(f.departure_time) + 6
                /\ f.arrival_date = f.departure_date
                /\ HourOf(f.departure_time) \in 0..23
                /\ HourOf(f.arrival_time) \in 0..23

---------------------------------------------------------------------------
(* tools/places_tool.py.  Texts built by f-strings are sequences of their   *)
(* pieces; ratings are in tenths                                            *)

Categories == <<"historical", "cultural", "natural", "entertainment", "religious">>

\* attraction_types, each subtype with its lower() as the description uses it
attraction_types ==
    [historical |-> <<[name |-> "Monument", lower |-> "monument"],
                      [name |-> "Palace", lower |-> "palace"],
                      [name |-> "Fort", lower |-> "fort"],
                      [name |-> "Archaeological Site", lower |-> "archaeological site"],
                      [name |-> "Heritage Site", lower |-> "heritage site"]>>,
     cultural |-> <<[name |-> "Museum", lower |-> "museum"],
                    [name |-> "Art Gallery", lower |-> "art gallery"],
                    [name |-> "Theater", lower |-> "theater"],
                    [name |-> "Cultural Center", lower |-> "cultural center"],
                    [name |-> "Temple", lower |-> "temple"]>>,
     natural |-> <<[name |-> "Park", lower |-> "park"],
                   [name |-> "Garden", lower |-> "garden"],
                   [name |-> "Lake", lower |-> "lake"],
                   [name |-> "Beach", lower |-> "beach"],
                   [name |-> "Viewpoint", lower |-> "viewpoint"]>>,
     entertainment |-> <<[name |-> "Amusement Park", lower |-> "amusement park"],
                         [name |-> "Zoo", lower |-> "zoo"],
                         [name |-> "Aquarium", lower |-> "aquarium"],
                         [name |-> "Shopping Mall", lower |-> "shopping mall"],
                         [name |-> "Market", lower |-> "market"]>>,
     religious |-> <<[name |-> "Temple", lower |-> "temple"],
                     [name |-> "Church", lower |-> "church"],
                     [name |-> "Mosque", lower |-> "mosque"],
                     [name |-> "Monastery", lower |-> "monastery"],
                     [name |-> "Shrine", lower |-> "shrine"]>>]

activity_types ==
    <<"Sightseeing", "Photography", "Walking Tour", "Food Tour", "Shopping",
      "Cultural Experience", "Adventure", "Relaxation">>

London == <<"L","o","n","d","o","n">>
Tokyo == <<"T","o","k","y","o">>
NewYork == <<"N","e","w"," ","Y","o","r","k">>

\* str.title(): a letter after a non-letter is upper-cased, any other lower-cased
Title(s) ==
    [i \in 1..Len(s) |->
        IF i = 1 \/ s[i - 1] \notin (DOMAIN LowerMap \cup DOMAIN UpperMap)
        THEN UpperChar(s[i]) ELSE LowerChar(s[i])]

\* _get_famous_places
get_famous_places(destination, category) ==
    LET dest_key == Title(destination)
    IN  CASE dest_key = Paris /\ category = "historical" ->
                <<[name |-> "Eiffel Tower",
                   description |-> "Iconic iron lattice tower and symbol of Paris"],
                  [name |-> "Arc de Triomphe",
                   description |-> "Monumental arch honoring French military victories"]>>
          [] dest_key = Paris /\ category = "cultural" ->
                <<[name |-> "Louvre Museum",
                   description |-> "World's largest art museum and historic monument"],
                  [name |-> "Musee d'Orsay",
                   description |->
                     "Museum featuring Impressionist and Post-Impressionist masterpieces"]>>
          [] dest_key = London /\ category = "historical" ->
                <<[name |-> "Tower of London",
                   description |-> "Historic castle and UNESCO World Heritage Site"],
                  [name |-> "Buckingham Palace",
                   description |-> "Official residence of the British monarch"]>>
          [] dest_key = London /\ category = "cultural" ->
                <<[name |-> "British Museum",
                   description |-> "World-famous museum of human history and culture"]>>
          [] dest_key = Tokyo /\ category = "historical" ->
                <<[name |-> "Senso-ji Temple",
                   description |-> "Ancient Buddhist temple in Asakusa"],
                  [name |-> "Imperial Palace",
                   description |-> "Primary residence of the Emperor of Japan"]>>
          [] dest_key = Tokyo /\ category = "cultural" ->
                <<[name |-> "Tokyo National Museum",
                   description |-> "Japan's oldest and largest museum"]>>
          [] dest_key = NewYork /\ category = "historical" ->
                <<[name |-> "Statue of Liberty",
                   description |-> "Iconic symbol of freedom and democracy"],
                  [name |-> "Empire State Building",
                   description |-> "Art Deco skyscraper and American cultural icon"]>>
          [] OTHER -> <<>>

\* _generate_entry_fee; d holds the draws: d.free is random() < 0.3, d.fee is
\* randint(5, 50)
generate_entry_fee_free_priced(d) ==
    [is_free |-> d.free, price |-> d.fee, currency |-> "USD"]
generate_entry_fee(d) ==
    IF d.free THEN [is_free |-> TRUE, price |-> 0, currency |-> "USD"]
    ELSE [is_free |-> FALSE, price |-> d.fee, currency |-> "USD"]

\* the draws of the random module for one place
PlaceDraws ==
    <<[subtype |-> 1, type |-> 2, rating |-> 38, reviews |-> 100, street |-> 1,
       duration |-> 1, free |-> TRUE, fee |-> 5, best |-> 1, activities |-> <<1, 2>>],
      [subtype |-> 5, type |-> 5, rating |-> 49, reviews |-> 5000, street |-> 999,
       duration |-> 5, free |-> FALSE, fee |-> 50, best |-> 4,
       activities |-> <<8, 3, 5, 1>>],
      [subtype |-> 3, type |-> 1, rating |-> 44, reviews |-> 2417, street |-> 42,
       duration |-> 3, free |-> FALSE, fee |-> 5, best |-> 2,
       activities |-> <<4, 6, 7>>],
      [subtype |-> 2, type |-> 4, rating |-> 41, reviews |-> 731, street |-> 350,
       duration |-> 2, free |-> TRUE, fee |-> 27, best |-> 3,
       activities |-> <<2, 1>>],
      [subtype |-> 4, type |-> 3, rating |-> 47, reviews |-> 1280, street |-> 7,
       duration |-> 4, free |-> FALSE, fee |-> 18, best |-> 1,
       activities |-> <<7, 8, 6, 5>>]>>

\* _generate_places_for_category, one pass of its loop
generate_place(destination, category, i, d) ==
    LET attraction_subtypes == attraction_types[category]
        famous_places == get_famous_places(destination, category)
        subtype == attraction_subtypes[d.subtype]
        place_data ==
            IF i < Len(famous_places)
            THEN [name |-> <<famous_places[i + 1].name>>,
                  description |-> <<famous_places[i + 1].description>>]
            ELSE [name |-> destination \o <<" ", subtype.name, " ", ToString(i + 1)>>,
                  description |->
                      <<"A beautiful ", category, " ", subtype.lower, " in ">>
                          \o destination \o <<".">>]
    IN  [name |-> place_data.name,
         category |-> category,
         type |-> attraction_subtypes[d.type].name,
         rating |-> d.rating,
         num_reviews |-> d.reviews,
         description |-> place_data.description,
         address |-> <<ToString(d.street), " ">> \o destination \o <<" Road, ">>
                         \o destination,
         estimated_visit_duration |-> <<"1-2 hours", "2-3 hours", "3-4 hours", "Half day",
                 "Full day">>[d.duration],
         entry_fee |-> generate_entry_fee(d),
         best_time_to_visit |-> <<"Morning", "Afternoon", "Evening", "Anytime">>[d.best],
         activities |-> [k \in 1..Len(d.activities) |-> activity_types[d.activities[k]]]]

\* _generate_places_for_category; the place numbered i of category number c
\* gets the draws numbered seed + 3c + i
generate_places_for_category(destination, category, count, seed) ==
    [k \in 1..count |->
        generate_place(destination, category, k - 1,
                       PlaceDraws[((seed + 3 * IndexOf(Categories, category) + k - 1)
                                   % Len(PlaceDraws)) + 1])]

\* random.shuffle: one of a few permutations
Shuffle(xs, sh) ==
    LET n == Len(xs)
        half == (n + 1) \div 2
    IN  CASE sh = "identity" -> xs
          [] sh = "reverse" -> [k \in 1..n |-> xs[n + 1 - k]]
          [] sh = "rotate" -> [k \in 1..n |-> xs[(k % n) + 1]]
          [] sh = "interleave" ->
                [k \in 1..n |-> IF k <= half THEN xs[2 * k - 1] ELSE xs[2 * (k - half)]]

\* xs[a:b] for 0 <= a <= b
Slice(xs, a, b) == SubSeq(xs, Min({a, Len(xs)}) + 1, Min({b, Len(xs)}))

\* search_places; categories None or empty means every category
search_places_no_minimum(destination, categories, limit, rnd) ==
    LET cats == IF categories = <<>> THEN Categories ELSE categories
        places_per_category == limit \div Len(cats)
        category_places ==
            [c \in 1..Len(cats) |->
                generate_places_for_category(destination, cats[c],
                                             places_per_category, rnd.seed)]
        places ==
            [k \in 1..(Len(cats) * places_per_category) |->
                category_places[((k - 1) \div places_per_category) + 1]
                               [((k - 1) % places_per_category) + 1]]
    IN  Slice(Shuffle(places, rnd.shuffle), 0, limit)
search_places(destination, categories, limit, rnd) ==
    LET cats == IF categories = <<>> THEN Categories ELSE categories
        places_per_category == Max({limit \div Len(cats), 2})
        category_places ==
            [c \in 1..Len(cats) |->
                generate_places_for_category(destination, cats[c],
                                             places_per_category, rnd.seed)]
        places ==
            [k \in 1..(Len(cats) * places_per_category) |->
                category_places[((k - 1) \div places_per_category) + 1]
                               [((k - 1) % places_per_category) + 1]]
    IN  Slice(Shuffle(places, rnd.shuffle), 0, limit)

\* _suggest_activities: the first four of the set of the places' activities,
\* in the order the set iterates in
suggest_activities(places, set_order) ==
    LET all_activities ==
            UNION {Range(places[k].activities) : k \in 1..Len(places)}
        in_set(a) == a \in all_activities
    IN  Slice(SelectSeq(set_order, in_set), 0, 4)

themes ==
    <<"Historical Exploration", "Cultural Immersion", "Natural Beauty",
      "Local Experiences", "Adventure & Entertainment", "Relaxation & Leisure",
      "Shopping & Cuisine">>

\* _get_day_theme
get_day_theme_last_first(day, total_days) ==
    IF day = total_days - 1 THEN "Final Day Highlights"
    ELSE IF day = 0 THEN "Arrival & City Orientation"
    ELSE themes[(day % Len(themes)) + 1]
get_day_theme(day, total_days) ==
    IF day = 0 THEN "Arrival & City Orientation"
    ELSE IF day = total_days - 1 THEN "Final Day Highlights"
    ELSE themes[(day % Len(themes)) + 1]

\* create_itinerary_suggestions
create_itinerary_suggestions_redistributing(destination, num_days, rnd) ==
    LET all_places == search_places(destination, <<>>, num_days * 4, rnd)
        places_per_day == Max({(Len(all_places) + num_days - 1) \div num_days, 2})
    IN  [k \in 1..num_days |->
            LET day == k - 1
                start_idx == day * places_per_day
                end_idx == start_idx + places_per_day
                day_places == Slice(all_places, start_idx, end_idx)
            IN  [day |-> day + 1,
                 theme |-> get_day_theme(day, num_days),
                 places |-> day_places,
                 activities |-> suggest_activities(day_places, rnd.set_order)]]
create_itinerary_suggestions(destination, num_days, rnd) ==
    LET all_places == search_places(destination, <<>>, num_days * 4, rnd)
        places_per_day == Max({Len(all_places) \div num_days, 2})
    IN  [k \in 1..num_days |->
            LET day == k - 1
                start_idx == day * places_per_day
                end_idx == start_idx + places_per_day
                day_places == Slice(all_places, start_idx, end_idx)
            IN  [day |-> day + 1,
                 theme |-> get_day_theme(day, num_days),
                 places |-> day_places,
                 activities |-> suggest_activities(day_places, rnd.set_order)]]

---------------------------------------------------------------------------
(* The places generator on its own: calls of search_places and             *)
(* create_itinerary_suggestions                                            *)

MaxItineraryDays == 30

Oslo == <<"O","s","l","o">>
PlacesDestinations ==
    {Paris, Oslo, <<"n","e","w"," ","y","o","r","k">>, <<"L","O","N","D","O","N">>}

PlacesDraws ==
    [seed : {0, 2}, shuffle : {"identity", "reverse", "rotate", "interleave"}, set_order : {activity_types, <<"Relaxation",
            "Adventure", "Cultural Experience", "Shopping", "Food Tour", "Walking Tour",
            "Photography", "Sightseeing">>}]

SearchPlaces(destination, limit, rnd) ==
    /\ pc = "idle"
    /\ pc' = "returned"
    /\ req' = [op |-> "search_places", destination |-> destination, limit |-> limit]
    /\ ret' = Returned(search_places(destination, <<>>, limit, rnd))
    /\ ext' = [NoExt EXCEPT !.places = 1]
    /\ UNCHANGED <<config, now, session, loc, tools>>

CreateItinerarySuggestions(destination, num_days, rnd) ==
    /\ pc = "idle"
    /\ pc' = "returned"
    /\ req' = [op |-> "create_itinerary_suggestions", destination |-> destination,
               num_days |-> num_days]
    /\ loc' = [at |-> "returned",
               all_places |-> search_places(destination, <<>>, num_days * 4, rnd)]
    /\ ret' = Returned(create_itinerary_suggestions(destination, num_days, rnd))
    /\ ext' = [NoExt EXCEPT !.places = 1]
    /\ UNCHANGED <<config, now, session, tools>>

NextPlaces ==
    \/ \E d \in PlacesDestinations, rnd \in PlacesDraws, limit \in {0, 3, 15} :
            SearchPlaces(d, limit, rnd)
    \/ \E d \in PlacesDestinations, rnd \in PlacesDraws, n \in 1..MaxItineraryDays :
            CreateItinerarySuggestions(d, n, rnd)

SpecPlaces == InitTools /\ [][NextPlaces]_vars

\* C6: create_itinerary_suggestions returns exactly N entries numbered 1..N in
\* order; the first theme is 'Arrival & City Orientation' (also when N = 1),
\* the last theme is 'Final Day Highlights' exactly when N > 1, and the
\* interior entry at 0-based position p has the theme at index p mod 7 of the
\* list of seven
C6_ItineraryThemes ==
    (pc = "returned" /\ req.op = "create_itinerary_suggestions") =>
        LET N == req.num_days
            itinerary == ret.value
            seven == <<"Historical Exploration", "Cultural Immersion", "Natural Beauty",
                       "Local Experiences", "Adventure & Entertainment",
                       "Relaxation & Leisure", "Shopping & Cuisine">>
        IN  /\ ret.kind = "returned"
            /\ Len(itinerary) = N
            /\ \A k \in 1..N : itinerary[k].day = k
            /\ itinerary[1].theme = "Arrival & City Orientation"
            /\ (itinerary[N].theme = "Final Day Highlights") <=> (N > 1)
            /\ \A p \in 1..(N - 2) : itinerary[p + 1].theme = seven[(p % 7) + 1]

\* C6 witnesses: an itinerary of one day, and a long one whose interior days
\* went round the list of seven
C6_Witness ==
    /\ pc = "returned"
    /\ req.op = "create_itinerary_suggestions"
    /\ req.num_days = 10
    /\ ret.value[8].theme = "Historical Exploration"
    /\ ret.value[9].theme = "Cultural Immersion"
    /\ ret.value[10].theme = "Final Day Highlights"

\* C20: create_itinerary_suggestions partitions the shuffled pool into N
\* contiguous chunks of size k = floor(pool_size / N): day d (0-based) gets
\* exactly pool[d*k .. (d+1)*k - 1], the days' place lists are pairwise
\* disjoint, and the pool_size - N*k trailing places are assigned to no day
C20_ItineraryPartition ==
    (pc = "returned" /\ req.op = "create_itinerary_suggestions") =>
        LET N == req.num_days
            pool == loc.all_places
            k == Len(pool) \div N
            itinerary == ret.value
            assigned(d) == Range(itinerary[d].places)
        IN  /\ \A d \in 0..(N - 1) :
                    itinerary[d + 1].places = [j \in 1..k |-> pool[d * k + j]]
            /\ \A d1, d2 \in 1..N : d1 # d2 => assigned(d1) \cap assigned(d2) = {}
            /\ \A j \in (N * k + 1)..Len(pool) :
                    \A d \in 1..N : pool[j] \notin assigned(d)

\* C20 witness: three days over a pool of ten places, three places a day and
\* the tenth place of the pool in no day
C20_Witness ==
    /\ pc = "returned"
    /\ req.op = "create_itinerary_suggestions"
    /\ req.num_days = 3
    /\ Len(loc.all_places) = 10
    /\ \A d \in 1..3 : Len(ret.value[d].places) = 3
    /\ \A d \in 1..3 : loc.all_places[10] \notin Range(ret.value[d].places)

\* C23: every synthetic place returned by search_places is well-formed: its
\* entry fee has is_free true if and only if price = 0, and when not free the
\* price is an integer in 5..50; its rating is in [3.8, 4.9] (in tenths
\* here); its activities are 2 to 4 pairwise distinct items of the fixed
\* 8-item activity vocabulary; and its category is one of the five known
\* categories
C23_PlacesWellFormed ==
    (pc = "returned" /\ req.op = "search_places") =>
        \A k \in 1..Len(ret.value) :
            LET place == ret.value[k]
            IN  /\ place.entry_fee.is_free <=> (place.entry_fee.price = 0)
                /\ ~place.entry_fee.is_free => place.entry_fee.price \in 5..50
                /\ place.rating \in 38..49
                /\ Len(place.activities) \in 2..4
                /\ Cardinality(Range(place.activities)) = Len(place.activities)
                /\ Range(place.activities) \subseteq
                      {"Sightseeing", "Photography", "Walking Tour", "Food Tour",
                       "Shopping", "Cultural Experience", "Adventure", "Relaxation"}
                /\ place.category \in
                      {"historical", "cultural", "natural", "entertainment", "religious"}

\* C23 witness: a search returned a free place and a place with the highest
\* fee, the highest rating and four activities
C23_Witness ==
    /\ pc = "returned"
    /\ req.op = "search_places"
    /\ \E k \in 1..Len(ret.value) :
            ret.value[k].entry_fee.is_free /\ Len(ret.value[k].activities) = 2
    /\ \E k \in 1..Len(ret.value) :
            /\ ret.value[k].entry_fee.price = 50
            /\ ret.value[k].rating = 49
            /\ Len(ret.value[k].activities) = 4

\* C25: for every N in 1..30 the pool returned by search_places(limit = 4N)
\* has min(4N, 5 * max(floor(4N / 5), 2)) places, and every day of the
\* itinerary gets exactly floor(pool_size / N) places, which is 3 or 4: no day
\* is ever empty, and fewer than N places of the pool are left unassigned
C25_PoolAndDaySizes ==
    (pc = "returned" /\ req.op = "create_itinerary_suggestions") =>
        LET N == req.num_days
            pool == loc.all_places
            itinerary == ret.value
            unassigned == {j \in 1..Len(pool) :
                              \A d \in 1..N : pool[j] \notin Range(itinerary[d].places)}
        IN  /\ Len(pool) = Min({4 * N, 5 * Max({(4 * N) \div 5, 2})})
            /\ \A d \in 1..N :
                  /\ Len(itinerary[d].places) = Len(pool) \div N
                  /\ Len(itinerary[d].places) \in {3, 4}
                  /\ itinerary[d].places # <<>>
            /\ Cardinality(unassigned) < N

\* C25 witness: four days over a pool of fifteen places, three places a day
\* and three places left over
C25_Witness ==
    /\ pc = "returned"
    /\ req.op = "create_itinerary_suggestions"
    /\ req.num_days = 4
    /\ Len(loc.all_places) = 15
    /\ \A d \in 1..4 : Len(ret.value[d].places) = 3
    /\ Cardinality({j \in 1..15 : \A d \in 1..4 :
                        loc.all_places[j] \notin Range(ret.value[d].places)}) = 3

---------------------------------------------------------------------------
(* utils/helpers.py and agents/travel_agent.py                             *)

\* validate_inputs: (is_valid, error_message)
validate_inputs_untrimmed(destination, num_days, month) ==
    IF destination = <<>> \/ Len(destination) < 2
    THEN <<FALSE, "Please enter a valid destination">>
    ELSE IF num_days < 1 \/ num_days > 30
    THEN <<FALSE, "Number of days must be between 1 and 30">>
    ELSE IF month < 1 \/ month > 12
    THEN <<FALSE, "Month must be between 1 and 12">>
    ELSE <<TRUE, "">>
validate_inputs(destination, num_days, month) ==
    IF destination = <<>> \/ Len(Strip(destination)) < 2
    THEN <<FALSE, "Please enter a valid destination">>
    ELSE IF num_days < 1 \/ num_days > 30
    THEN <<FALSE, "Number of days must be between 1 and 30">>
    ELSE IF month < 1 \/ month > 12
    THEN <<FALSE, "Month must be between 1 and 12">>
    ELSE <<TRUE, "">>

\* the table of _get_city_code, in the order it is written
city_codes ==
    <<[key |-> <<"n","e","w"," ","y","o","r","k">>,
       code |-> <<"N","Y","C">>],
      [key |-> <<"n","y","c">>,
       code |-> <<"N","Y","C">>],
      [key |-> <<"p","a","r","i","s">>,
       code |-> <<"P","A","R">>],
      [key |-> <<"l","o","n","d","o","n">>,
       code |-> <<"L","O","N">>],
      [key |-> <<"t","o","k","y","o">>,
       code |-> <<"T","Y","O">>],
      [key |-> <<"l","o","s"," ","a","n","g","e","l","e","s">>,
       code |-> <<"L","A","X">>],
      [key |-> <<"c","h","i","c","a","g","o">>,
       code |-> <<"C","H","I">>],
      [key |-> <<"s","a","n"," ","f","r","a","n","c","i","s","c","o">>,
       code |-> <<"S","F","O">>],
      [key |-> <<"m","i","a","m","i">>,
       code |-> <<"M","I","A">>],
      [key |-> <<"b","o","s","t","o","n">>,
       code |-> <<"B","O","S">>],
      [key |-> <<"s","e","a","t","t","l","e">>,
       code |-> <<"S","E","A">>],
      [key |-> <<"r","o","m","e">>,
       code |-> <<"R","O","M">>],
      [key |-> <<"b","a","r","c","e","l","o","n","a">>,
       code |-> <<"B","C","N">>],
      [key |-> <<"a","m","s","t","e","r","d","a","m">>,
       code |-> <<"A","M","S">>],
      [key |-> <<"d","u","b","a","i">>,
       code |-> <<"D","X","B">>],
      [key |-> <<"s","i","n","g","a","p","o","r","e">>,
       code |-> <<"S","I","N">>],
      [key |-> <<"h","o","n","g"," ","k","o","n","g">>,
       code |-> <<"H","K","G">>],
      [key |-> <<"s","y","d","n","e","y">>,
       code |-> <<"S","Y","D">>],
      [key |-> <<"d","e","l","h","i">>,
       code |-> <<"D","E","L">>],
      [key |-> <<"m","u","m","b","a","i">>,
       code |-> <<"B","O","M">>]>>

\* _get_city_code
get_city_code_case_sensitive(city) ==
    LET city_lower == Strip(city)
        hits == {k \in 1..Len(city_codes) : city_codes[k].key = city_lower}
    IN  IF hits # {} THEN city_codes[CHOOSE k \in hits : TRUE].code
        ELSE Upper(Prefix(city, 3))
get_city_code(city) ==
    LET city_lower == Strip(Lower(city))
        hits == {k \in 1..Len(city_codes) : city_codes[k].key = city_lower}
    IN  IF hits # {} THEN city_codes[CHOOSE k \in hits : TRUE].code
        ELSE Upper(Prefix(city, 3))

\* _initialize_llm and TravelPlanningAgent.__init__: the agent's tools, or
\* [constructed |-> FALSE] when the constructor raises (no GOOGLE_API_KEY, or
\* the LLM client's own constructor raising, which is e = "raise")
TravelPlanningAgent(cfg, e) ==
    IF Truthy(cfg.GOOGLE_API_KEY) /\ e # "raise"
    THEN [constructed |-> TRUE, weather |-> WeatherTool(cfg), llm |-> "gemini"]
    ELSE NoTools

\* _generate_cultural_context; e is what llm.invoke does
generate_cultural_context(destination, e) ==
    CASE e.kind = "response" -> IF e.has_content THEN e.content ELSE e.repr
      [] e.kind = "raise" ->
            destination
            \o <<" is a remarkable destination known for its rich cultural heritage ",
                 "and historical significance. The city offers a unique blend of tradition and modernity, ",
                 "making it an ideal destination for travelers seeking authentic experiences. ",
                 "Visitors can explore numerous historical sites, immerse themselves in local culture, ",
                 "and enjoy the vibrant atmosphere that ">>
            \o destination \o <<" has to offer.">>

\* _get_weather_info: two calls of the weather adapter, e1 and e2 being what
\* the external service does in each; an exception of get_forecast passes
\* through
get_weather_info_uncapped(tool, destination, num_days, e1, e2, today) ==
    LET current_weather == get_current_weather(tool, destination, "metric", e1)
        forecast == get_forecast(tool, destination, num_days, e2, today)
    IN  [ret |-> IF forecast.ret.raised THEN forecast.ret
                 ELSE Returned([current |-> current_weather.value,
                                forecast |-> forecast.ret.value]),
         invoked |-> current_weather.invoked + forecast.invoked]
get_weather_info(tool, destination, num_days, e1, e2, today) ==
    LET current_weather == get_current_weather(tool, destination, "metric", e1)
        forecast == get_forecast(tool, destination, Min({num_days, 5}), e2, today)
    IN  [ret |-> IF forecast.ret.raised THEN forecast.ret
                 ELSE Returned([current |-> current_weather.value,
                                forecast |-> forecast.ret.value]),
         invoked |-> current_weather.invoked + forecast.invoked]

\* the dates of create_travel_plan (lines 84-87)
travel_dates_from_today(today, num_days) ==
    [departure |-> AddDays(today, 2), return |-> AddDays(today, num_days)]
travel_dates(today, num_days) ==
    [departure |-> AddDays(today, 2), return |-> AddDays(AddDays(today, 2), num_days)]

\* the date_suggestions of create_travel_plan (lines 103-119)
date_suggestions(departure_date_obj, return_date_obj) ==
    <<[period |-> "Suggested Dates",
       start_date |-> FormatLong(departure_date_obj),
       end_date |-> FormatLong(return_date_obj)],
      [period |-> "Alternative (+1 week)",
       start_date |-> FormatLong(AddDays(departure_date_obj, 7)),
       end_date |-> FormatLong(AddDays(return_date_obj, 7))],
      [period |-> "Alternative (+2 weeks)",
       start_date |-> FormatLong(AddDays(departure_date_obj, 14)),
       end_date |-> FormatLong(AddDays(return_date_obj, 14))]>>

mcp_servers_used ==
    [weather |-> "AccuWeather MCP (@timlukahorstmann/mcp-weather)",
     flights |-> "Kiwi Travel MCP (https://mcp.kiwi.com)",
     places |-> "Mock Data (No MCP server available)"]

\* create_travel_plan, step 6: the plan compiled from the results of the
\* steps before it; an exception of the weather step has ended the call
\* before the flight and the itinerary steps
compile_plan(destination, num_days, travel_month, origin, today, dates, cultural_context, weather_info, flight_options, itinerary) ==
    IF weather_info.ret.raised
    THEN [ret |-> weather_info.ret,
          ext |-> [agent |-> 0, llm |-> 1, weather |-> weather_info.invoked,
                   flights |-> 0, places |-> 0]]
    ELSE [ret |-> Returned(
                    [destination |-> destination,
                     origin |-> origin,
                     duration |-> <<ToString(num_days), " days">>,
                     travel_month |-> get_month_name(travel_month),
                     cultural_context |-> cultural_context,
                     weather |-> weather_info.ret.value,
                     suggested_dates |->
                         date_suggestions(dates.departure, dates.return),
                     flights |-> flight_options.value,
                     itinerary |-> itinerary,
                     generated_at |-> FormatISO(today),
                     mcp_servers_used |-> mcp_servers_used]),
          ext |-> [agent |-> 0, llm |-> 1, weather |-> weather_info.invoked,
                   flights |-> flight_options.invoked, places |-> 1]]

\* create_travel_plan, steps 1 to 5, with the dates of lines 84-91
plan_steps(agent, destination, num_days, travel_month, origin, today, o, dates) ==
    compile_plan(destination, num_days, travel_month, origin, today, dates,
                 generate_cultural_context(destination, o.llm),
                 get_weather_info(agent.weather, destination, num_days,
                                  o.weather1, o.weather2, today),
                 get_best_flights(FormatISO(dates.departure), get_city_code(origin),
                                  get_city_code(destination), FormatISO(dates.return),
                                  3, o.flights, o.frnd),
                 create_itinerary_suggestions(destination, num_days, o.prnd))

\* create_travel_plan.  o is what the outside does during the call: o.llm,
\* o.weather1, o.weather2 and o.flights are what the external services do,
\* o.frnd and o.prnd are the draws of the random module in the flight and the
\* places generators.  The result: what the call returns or raises, and how
\* often each component was invoked.
create_travel_plan(agent, destination, num_days, travel_month, origin, today, o) ==
    plan_steps(agent, destination, num_days, travel_month, origin, today, o,
               travel_dates(today, num_days))

---------------------------------------------------------------------------
(* One call of create_travel_plan on a constructed agent                   *)

\* the installations, with and without a weather key, and the current dates:
\* mid-month, the end of January, a leap February, the 28th of December
PlanSettings ==
    [config : {[GOOGLE_API_KEY |-> "google-key", ACCUWEATHER_API_KEY |-> k,
                USE_MOCK_DATA |-> FALSE] : k \in {None, "accuweather-key"}},
     now : {Date(2025, 6, 15), Date(2025, 1, 30), Date(2024, 2, 27), Date(2025, 12, 28)}]

\* destination, origin and travel_month, each with two values, and the
\* number of days
PlanInputs ==
    {[destination |-> i[1], origin |-> i[2], travel_month |-> i[3], num_days |-> n] :
        i \in {<<Paris, NewYork, 1>>, <<Oslo, <<>>, 12>>, <<Paris, <<>>, 12>>},
        n \in {1, 2, 6, 30}}

LlmOutcomes ==
    {[kind |-> "raise"],
     [kind |-> "response", has_content |-> TRUE,
      content |-> <<"A city of light, art and long history.">>],
     [kind |-> "response", has_content |-> FALSE,
      repr |-> <<"AIMessage()">>]}

PlanWeatherOutcomes ==
    {[kind |-> "raise"],
     [kind |-> "result", has_content |-> TRUE,
      content |-> [is_list |-> TRUE,
                   items |-> <<[text |-> <<"2","2","deg","C"," ","6","0","%"," ",
                                           "s","u","n","n","y">>]>>]]}

PlanFlightOutcomes ==
    {[kind |-> "timeout"],
     [kind |-> "result", has_content |-> TRUE, hash |-> 4711,
      content |-> [is_list |-> TRUE, items |-> <<JsonTwoFlights>>]],
     [kind |-> "result", has_content |-> TRUE, hash |-> 4711,
      content |-> [is_list |-> TRUE, items |-> <<TextSixPrices>>]]}

\* the draws of the random module during one call
PlanOutcomeDraws ==
    [frnd |-> {[price |-> <<200, 100, 0, -50, -100>>, airline |-> <<3, 2, 1, 3, 2>>,
                stops |-> <<3, 2, 1, 3, 2>>]},
     prnd |-> {[seed |-> 2, shuffle |-> "interleave", set_order |-> activity_types]}]

PlanOutcomes ==
    [llm : LlmOutcomes, weather1 : PlanWeatherOutcomes, weather2 : PlanWeatherOutcomes,
     flights : PlanFlightOutcomes, frnd : PlanOutcomeDraws.frnd,
     prnd : PlanOutcomeDraws.prnd]

InitPlan ==
    /\ \E s \in PlanSettings : config = s.config /\ now = s.now
    /\ tools = TravelPlanningAgent(config, "ok")
    /\ session = [NoSession EXCEPT !.agent = "TravelPlanningAgent"]
    /\ pc = "idle"
    /\ req = NoReq
    /\ loc = NoLoc
    /\ ret = NoRet
    /\ ext = NoExt

CreateTravelPlan(destination, num_days, travel_month, origin, o) ==
    LET r == create_travel_plan(tools, destination, num_days, travel_month, origin,
                                now, o)
    IN  /\ pc = "idle"
        /\ pc' = "returned"
        /\ req' = [op |-> "create_travel_plan", destination |-> destination,
                   num_days |-> num_days, travel_month |-> travel_month,
                   origin |-> origin]
        /\ ret' = r.ret
        /\ ext' = r.ext
        /\ UNCHANGED <<config, now, session, loc, tools>>

\* the city names _get_city_code is called with: the keys and the codes of
\* the table and names outside it, in four casings, bare and padded with
\* whitespace on either side
CityInputs ==
    {l \o c \o r :
        l \in {<<>>, <<" ">>}, r \in {<<>>, <<" ", "\n">>},
        c \in UNION {{n, Lower(n), Upper(n), Title(n)} :
                n \in {city_codes[k].key : k \in DOMAIN city_codes}
                      \cup {city_codes[k].code : k \in DOMAIN city_codes}
                      \cup {Oslo, <<"O", "s">>, <<"n","y","c","i","t","y">>, <<>>}}}

\* a call of _get_city_code on its own
GetCityCode(city) ==
    /\ pc = "idle"
    /\ pc' = "returned"
    /\ req' = [op |-> "get_city_code", city |-> city]
    /\ ret' = Returned(get_city_code(city))
    /\ UNCHANGED <<config, now, session, loc, ext, tools>>

NextPlan ==
    \/ \E i \in PlanInputs, o \in PlanOutcomes :
          CreateTravelPlan(i.destination, i.num_days, i.travel_month, i.origin, o)
    \/ \E city \in CityInputs : GetCityCode(city)

SpecPlan == InitPlan /\ [][NextPlan]_vars

PlanKeys ==
    {"destination", "origin", "duration", "travel_month", "cultural_context",
     "weather", "suggested_dates", "flights", "itinerary", "generated_at",
     "mcp_servers_used"}

\* C1: for every accepted input, every origin, every current date and every
\* behaviour of the LLM, weather and flight services, create_travel_plan
\* returns a complete plan and raises no exception
C1_PlanNeverRaises ==
    (pc = "returned" /\ req.op = "create_travel_plan") =>
        /\ ret.kind = "returned"
        /\ DOMAIN ret.value = PlanKeys

\* C7: a returned plan has N itinerary entries, min(N, 5) forecast entries,
\* between 1 and 3 outbound flights and exactly 3 suggested date windows
C7_PlanSizes ==
    (pc = "returned" /\ req.op = "create_travel_plan" /\ ret.kind = "returned") =>
        LET N == req.num_days
            plan == ret.value
        IN  /\ Len(plan.itinerary) = N
            /\ Len(plan.weather.forecast) = (IF N < 5 THEN N ELSE 5)
            /\ Len(plan.weather.forecast) <= 5
            /\ Len(plan.flights.outbound_flights) \in 1..3
            /\ Len(plan.suggested_dates) = 3

\* C7 witness: a plan of more than 5 days, with the forecast capped at 5 and
\* the real flights cut to 3
C7_Witness ==
    /\ pc = "returned"
    /\ req.op = "create_travel_plan"
    /\ ret.kind = "returned"
    /\ req.num_days = 6
    /\ Len(ret.value.itinerary) = 6
    /\ Len(ret.value.weather.forecast) = 5
    /\ ret.value.flights.source = SourceKiwiReal
    /\ Len(ret.value.flights.outbound_flights) = 3

\* C8: departure is the current date + 2 days and return is departure + N
\* days; there are exactly three date windows, window k (k = 0, 1, 2) running
\* from departure + 7k days to return + 7k days, whatever the travel_month,
\* the destination and the origin
C8_TravelDates ==
    (pc = "returned" /\ req.op = "create_travel_plan" /\ ret.kind = "returned") =>
        LET N == req.num_days
            plan == ret.value
            departure == ToOrdinal(now) + 2
        IN  /\ plan.flights.search_params.departure = FormatISO(FromOrdinal(departure))
            /\ plan.flights.search_params.return = FormatISO(FromOrdinal(departure + N))
            /\ Len(plan.suggested_dates) = 3
            /\ \A k \in 0..2 :
                  /\ ToOrdinal(ParseLong(plan.suggested_dates[k + 1].start_date))
                        = departure + 7 * k
                  /\ ToOrdinal(ParseLong(plan.suggested_dates[k + 1].end_date))
                        = departure + N + 7 * k

\* C8 witness: on 27 February 2024 a one-day trip leaves on the 29th and
\* returns on 1 March, and the third window ends two weeks after that
C8_Witness ==
    /\ pc = "returned"
    /\ req.op = "create_travel_plan"
    /\ ret.kind = "returned"
    /\ now = Date(2024, 2, 27)
    /\ req.num_days = 1
    /\ ret.value.suggested_dates[1].start_date =
          <<"F","e","b","r","u","a","r","y"," ","2","9",","," ","2","0","2","4">>
    /\ ret.value.suggested_dates[1].end_date =
          <<"M","a","r","c","h"," ","0","1",","," ","2","0","2","4">>
    /\ ret.value.suggested_dates[3].end_date =
          <<"M","a","r","c","h"," ","1","5",","," ","2","0","2","4">>

\* C24: within one plan, weather.current and weather.forecast have the same
\* provenance and come from the same reading: the forecast is the one derived
\* from real data if and only if weather.current is tagged as real, and then
\* every forecast entry carries the description, humidity and wind speed of
\* weather.current
C24_CurrentAndForecastSameReading ==
    (pc = "returned" /\ req.op = "create_travel_plan" /\ ret.kind = "returned") =>
        LET weather == ret.value.weather
            forecast == weather.forecast
        IN  IF weather.current.source = SourceMCPWeather
            THEN \A k \in 1..Len(forecast) :
                    /\ forecast[k].description = weather.current.description
                    /\ forecast[k].humidity = weather.current.humidity
                    /\ forecast[k].wind_speed = weather.current.wind_speed
            ELSE forecast = get_mock_forecast(req.destination, Len(forecast), now)

---------------------------------------------------------------------------
(* create_travel_plan statement by statement: the calls of the LLM, the    *)
(* weather adapter (twice), the flight adapter and the itinerary           *)
(* synthesiser, each external service being invoked and answering in       *)
(* separate steps.  pc is the statement the call is at; loc holds the      *)
(* locals of the call, the services invoked and not yet answered, and the  *)
(* log of what has happened.                                               *)

\* the statement after each statement of create_travel_plan
StepAfterFlightsFirst(at) ==
    CASE at = "llm" -> "flights"
      [] at = "flights" -> "weather_current"
      [] at = "weather_current" -> "weather_forecast"
      [] at = "weather_forecast" -> "itinerary"
      [] at = "itinerary" -> "compile"
      [] at = "compile" -> "returned"
StepAfter(at) ==
    CASE at = "llm" -> "weather_current"
      [] at = "weather_current" -> "weather_forecast"
      [] at = "weather_forecast" -> "flights"
      [] at = "flights" -> "itinerary"
      [] at = "itinerary" -> "compile"
      [] at = "compile" -> "returned"

\* the external service the statement at calls
Service(at) ==
    CASE at = "llm" -> "llm"
      [] at \in {"weather_current", "weather_forecast"} -> "weather"
      [] at = "flights" -> "flights"

\* what the statement at gives when its external service does e: the value
\* (or the exception) and the number of invocations of the service
StepResult(at, e, rnd) ==
    CASE at = "llm" ->
            [ret |-> Returned(generate_cultural_context(req.destination, e)),
             invoked |-> 1]
      [] at = "weather_current" ->
            LET r == get_current_weather(tools.weather, req.destination, "metric", e)
            IN  [ret |-> Returned(r.value), invoked |-> r.invoked]
      [] at = "weather_forecast" ->
            get_forecast(tools.weather, req.destination, Min({req.num_days, 5}), e, now)
      [] at = "flights" ->
            LET r == get_best_flights(FormatISO(loc.dates.departure),
                                      get_city_code(req.origin),
                                      get_city_code(req.destination),
                                      FormatISO(loc.dates.return), 3, e, rnd)
            IN  [ret |-> Returned(r.value), invoked |-> r.invoked]

\* what each external service can do when the statement at calls it
StepOutcomes(at) ==
    CASE at = "llm" -> LlmOutcomes
      [] at \in {"weather_current", "weather_forecast"} ->
            PlanWeatherOutcomes \cup {[kind |-> "timeout"], [kind |-> "loop_error"]}
      [] at = "flights" ->
            PlanFlightOutcomes \cup {[kind |-> "raise"], [kind |-> "loop_error"]}
      [] OTHER -> {}

\* create_travel_plan is entered: the dates of lines 84-91
Begin(destination, num_days, travel_month, origin) ==
    /\ pc = "idle"
    /\ pc' = "llm"
    /\ req' = [op |-> "create_travel_plan", destination |-> destination,
               num_days |-> num_days, travel_month |-> travel_month,
               origin |-> origin]
    /\ loc' = [dates |-> travel_dates(now, num_days), invoked |-> 0, in_flight |-> {},
               log |-> <<>>, llm |-> None, weather_current |-> None,
               weather_forecast |-> None, flights |-> None, itinerary |-> None]
    /\ UNCHANGED <<config, now, session, ret, ext, tools>>

\* the adapter of the statement at pc invokes its external service
Invoke ==
    /\ pc \in {"llm", "weather_current", "weather_forecast", "flights"}
    /\ \E e \in StepOutcomes(pc), rnd \in PlanOutcomeDraws.frnd :
          loc.invoked < StepResult(pc, e, rnd).invoked
    /\ loc' = [loc EXCEPT !.invoked = @ + 1,
                          !.in_flight = @ \cup {Service(pc)},
                          !.log = Append(@, [ev |-> "invoke", of |-> Service(pc)])]
    /\ ext' = [ext EXCEPT ![Service(pc)] = @ + 1]
    /\ UNCHANGED <<config, now, session, pc, req, ret, tools>>

\* the statement at pc completes with the result r: the value is stored, or
\* the exception ends the call
Complete(r, event) ==
    /\ loc.invoked = r.invoked
    /\ IF r.ret.raised
       THEN /\ pc' = "returned"
            /\ ret' = r.ret
            /\ loc' = [loc EXCEPT !.invoked = 0, !.in_flight = @ \ {Service(pc)},
                                  !.log = Append(@, event)]
       ELSE /\ pc' = StepAfter(pc)
            /\ ret' = ret
            /\ loc' = [loc EXCEPT ![pc] = r.ret.value, !.invoked = 0,
                                  !.in_flight = @ \ {Service(pc)},
                                  !.log = Append(@, event)]
    /\ UNCHANGED <<config, now, session, req, ext, tools>>

\* the statement at pc returns, its external service having done e
Return(e, rnd) ==
    /\ pc \in {"llm", "weather_current", "weather_forecast", "flights"}
    /\ e \in StepOutcomes(pc)
    /\ Complete(StepResult(pc, e, rnd), [ev |-> "return", of |-> pc, outcome |-> e])

\* step 5: the itinerary is synthesised (lines 139-143)
CreateItinerary(rnd) ==
    /\ pc = "itinerary"
    /\ pc' = StepAfter(pc)
    /\ loc' = [loc EXCEPT !.itinerary =
                              create_itinerary_suggestions(req.destination,
                                                           req.num_days, rnd),
                          !.log = Append(@, [ev |-> "synthesise", of |-> "itinerary"])]
    /\ ext' = [ext EXCEPT !.places = @ + 1]
    /\ UNCHANGED <<config, now, session, req, ret, tools>>

\* step 6: the plan is compiled and returned (lines 146-166)
Compile ==
    /\ pc = "compile"
    /\ pc' = StepAfter(pc)
    /\ ret' = compile_plan(req.destination, req.num_days, req.travel_month, req.origin,
                           now, loc.dates, loc.llm,
                           [ret |-> Returned([current |-> loc.weather_current,
                                              forecast |-> loc.weather_forecast]),
                            invoked |-> ext.weather],
                           [value |-> loc.flights, invoked |-> ext.flights],
                           loc.itinerary).ret
    /\ loc' = [loc EXCEPT !.log = Append(@, [ev |-> "compile", of |-> "plan"])]
    /\ UNCHANGED <<config, now, session, req, ext, tools>>

NextSteps ==
    \/ \E i \in {i \in PlanInputs : i.num_days <= 2 /\ i.travel_month = 12} :
          Begin(i.destination, i.num_days, i.travel_month, i.origin)
    \/ Invoke
    \/ \E e \in UNION {StepOutcomes(at) : at \in {"llm", "weather_current", "flights"}},
          rnd \in PlanOutcomeDraws.frnd :
            Return(e, rnd)
    \/ \E rnd \in PlanOutcomeDraws.prnd : CreateItinerary(rnd)
    \/ Compile

SpecSteps == InitPlan /\ [][NextSteps]_vars

---------------------------------------------------------------------------
(* app.py: one run of main() per action, in a Streamlit session            *)

\* main() after the click on Generate with an agent at hand: r is what
\* create_travel_plan returned or raised (lines 337-349)
main_store_clearing(sess, agent, constructed_now, r) ==
    IF r.ret.raised
    THEN [session |-> [agent |-> "TravelPlanningAgent", travel_plan |-> NoPlan],
          tools |-> agent,
          ret |-> [kind |-> "error", raised |-> FALSE, error |-> r.ret.error],
          ext |-> [r.ext EXCEPT !.agent = constructed_now]]
    ELSE [session |-> [agent |-> "TravelPlanningAgent", travel_plan |-> r.ret.value],
          tools |-> agent,
          ret |-> [kind |-> "success", raised |-> FALSE],
          ext |-> [r.ext EXCEPT !.agent = constructed_now]]
main_store(sess, agent, constructed_now, r) ==
    IF r.ret.raised
    THEN [session |-> [sess EXCEPT !.agent = "TravelPlanningAgent"],
          tools |-> agent,
          ret |-> [kind |-> "error", raised |-> FALSE, error |-> r.ret.error],
          ext |-> [r.ext EXCEPT !.agent = constructed_now]]
    ELSE [session |-> [agent |-> "TravelPlanningAgent", travel_plan |-> r.ret.value],
          tools |-> agent,
          ret |-> [kind |-> "success", raised |-> FALSE],
          ext |-> [r.ext EXCEPT !.agent = constructed_now]]

\* main() after validation (lines 330-349): agent is the session's agent, or
\* the outcome of constructing one now
main_generate(sess, tls, agent, constructed_now, destination, origin, num_days, travel_month, today, o) ==
    IF ~agent.constructed
    THEN [session |-> sess,
          tools |-> tls,
          ret |-> [kind |-> "error", raised |-> FALSE, error |-> "Exception"],
          ext |-> [NoExt EXCEPT !.agent = constructed_now]]
    ELSE main_store(sess, agent, constructed_now,
                    create_travel_plan(agent, Strip(destination), num_days,
                                       travel_month, Strip(origin), today, o))

\* main() with the Generate button clicked (lines 321-349): the session, the
\* agent's tools, what the run showed, and what it invoked
main(sess, tls, cfg, destination, origin, num_days, travel_month, today, o) ==
    IF ~validate_inputs(destination, num_days, travel_month)[1]
    THEN [session |-> sess,
          tools |-> tls,
          ret |-> [kind |-> "rejected", raised |-> FALSE,
                   error |-> validate_inputs(destination, num_days, travel_month)[2]],
          ext |-> NoExt]
    ELSE main_generate(sess, tls,
                       IF sess.agent = None THEN TravelPlanningAgent(cfg, o.init)
                       ELSE tls,
                       IF sess.agent = None THEN 1 ELSE 0,
                       destination, origin, num_days, travel_month, today, o)

\* what the sidebar's widgets can hold: any text, a slider of 1..30, one of
\* the twelve months
UiDestinations ==
    {<<>>, <<" ", " ", "P", " ">>, <<" ", "P", "a", "r", "i", "s", " ">>, <<"O", "s">>}
UiInputs == [destination : UiDestinations, origin : {NewYork}, num_days : {1, 3},
             travel_month : {12}]

\* what the outside does during one run: every service failing, every service
\* answering, a mix, and the LLM client failing to construct
UiOutcomes ==
    {[init |-> "ok", llm |-> [kind |-> "raise"], weather1 |-> [kind |-> "raise"],
      weather2 |-> [kind |-> "raise"], flights |-> [kind |-> "timeout"],
      frnd |-> f, prnd |-> p] : f \in PlanOutcomeDraws.frnd, p \in PlanOutcomeDraws.prnd}
    \cup
    {[init |-> i, llm |-> l, weather1 |-> w, weather2 |-> w, flights |-> f,
      frnd |-> fr, prnd |-> p] :
        i \in {"ok"},
        l \in {x \in LlmOutcomes : x.kind = "response" /\ x.has_content},
        w \in {x \in PlanWeatherOutcomes : x.kind = "result"},
        f \in {x \in PlanFlightOutcomes : x.kind = "result"},
        fr \in PlanOutcomeDraws.frnd, p \in PlanOutcomeDraws.prnd}
    \cup
    {[init |-> "raise", llm |-> [kind |-> "raise"], weather1 |-> [kind |-> "raise"],
      weather2 |-> [kind |-> "raise"], flights |-> [kind |-> "timeout"],
      frnd |-> f, prnd |-> p] : f \in PlanOutcomeDraws.frnd, p \in PlanOutcomeDraws.prnd}

\* the installations and the days the session runs on
UiSettings ==
    {[config |-> [GOOGLE_API_KEY |-> None, ACCUWEATHER_API_KEY |-> None,
                  USE_MOCK_DATA |-> FALSE],
      now |-> Date(2025, 6, 15)],
     [config |-> [GOOGLE_API_KEY |-> "google-key", ACCUWEATHER_API_KEY |-> None,
                  USE_MOCK_DATA |-> FALSE],
      now |-> Date(2025, 6, 15)],
     [config |-> [GOOGLE_API_KEY |-> "google-key",
                  ACCUWEATHER_API_KEY |-> "accuweather-key", USE_MOCK_DATA |-> TRUE],
      now |-> Date(2025, 6, 15)],
     [config |-> [GOOGLE_API_KEY |-> "google-key",
                  ACCUWEATHER_API_KEY |-> "accuweather-key", USE_MOCK_DATA |-> FALSE],
      now |-> Date(2025, 12, 28)]}

\* direct calls of validate_inputs: its arguments are any text and any integers
ValidateArguments ==
    [destination : UiDestinations
                   \cup {<<"A">>, <<"A", "B">>, <<"A", " ", "B">>, <<" ", "\t", "\n">>,
                         <<"\t", "A", "B">>},
     num_days : {0 - 1, 0, 1, 30, 31},
     month : {0, 1, 12, 13}]

MaxRuns == 2

Init ==
    /\ \E s \in UiSettings : config = s.config /\ now = s.now
    /\ session = NoSession
    /\ tools = NoTools
    /\ pc = "idle"
    /\ req = NoReq
    /\ loc = [runs |-> 0]
    /\ ret = NoRet
    /\ ext = NoExt

\* the outcome m of a run of main() becomes the state
Show(m) ==
    /\ session' = m.session
    /\ tools' = m.tools
    /\ ret' = m.ret
    /\ ext' = m.ext

\* a run of main() with the Generate button clicked
Main(destination, origin, num_days, travel_month, o) ==
    /\ pc = "idle"
    /\ loc.runs < MaxRuns
    /\ loc' = [runs |-> loc.runs + 1]
    /\ req' = [op |-> "main", generate_button |-> TRUE, destination |-> destination,
               origin |-> origin, num_days |-> num_days, travel_month |-> travel_month]
    /\ Show(main(session, tools, config, destination, origin, num_days, travel_month,
                 now, o))
    /\ UNCHANGED <<config, now, pc>>

\* a run of main() without the click: the stored plan, if any, is displayed
Rerun ==
    /\ pc = "idle"
    /\ loc.runs < MaxRuns
    /\ loc' = [runs |-> loc.runs + 1]
    /\ req' = [op |-> "main", generate_button |-> FALSE]
    /\ ret' = [kind |-> "displayed", raised |-> FALSE]
    /\ ext' = NoExt
    /\ UNCHANGED <<config, now, pc, session, tools>>

\* a call of validate_inputs on its own
ValidateInputs(destination, num_days, month) ==
    /\ pc = "idle"
    /\ req = NoReq
    /\ pc' = "returned"
    /\ req' = [op |-> "validate_inputs", destination |-> destination,
               num_days |-> num_days, month |-> month]
    /\ ret' = Returned(validate_inputs(destination, num_days, month))
    /\ UNCHANGED <<config, now, session, loc, ext, tools>>

Next ==
    \/ \E i \in UiInputs, o \in UiOutcomes :
            Main(i.destination, i.origin, i.num_days, i.travel_month, o)
    \/ Rerun
    \/ \E a \in ValidateArguments :
            ValidateInputs(a.destination, a.num_days, a.month)

Spec == Init /\ [][Next]_vars

\* the inputs validate_inputs is to accept: two characters are left of the
\* destination once it is trimmed, the days are in 1..30, the month in 1..12
Acceptable(destination, num_days, month) ==
    /\ \E i, j \in DOMAIN destination :
          /\ i < j
          /\ destination[i] \notin Whitespace
          /\ destination[j] \notin Whitespace
    /\ num_days \in 1..30
    /\ month \in 1..12

\* C4: validate_inputs accepts exactly the inputs with a destination of at
\* least 2 characters after trimming, num_days in 1..30 and month in 1..12;
\* a run of main() whose generate request it rejects constructs no agent,
\* invokes no LLM, weather, flight or places component, and leaves the session
\* (agent and stored plan) as it was
C4_RejectedBeforeAnything ==
    [][/\ req'.op = "validate_inputs" =>
             (ret'.value[1] <=> Acceptable(req'.destination, req'.num_days, req'.month))
       /\ (/\ req'.op = "main"
           /\ req'.generate_button
           /\ ~Acceptable(req'.destination, req'.num_days, req'.travel_month)) =>
             /\ ret'.kind = "rejected"
             /\ ext' = NoExt
             /\ tools' = tools
             /\ session' = session
       /\ (/\ req'.op = "main"
           /\ req'.generate_button
           /\ Acceptable(req'.destination, req'.num_days, req'.travel_month)) =>
             ret'.kind # "rejected"]_vars

\* C4 witness: a plan is stored, and the next generate request, for a
\* destination of one letter between blanks, was rejected and left it stored
C4_Witness ==
    /\ req.op = "main"
    /\ req.generate_button
    /\ req.destination = <<" ", " ", "P", " ">>
    /\ ret.kind = "rejected"
    /\ ext = NoExt
    /\ session.travel_plan # NoPlan
    /\ loc.runs = 2

\* C27: in the UI session the stored travel plan is replaced only by a
\* complete plan returned by create_travel_plan: a generate request that is
\* rejected by validation or that fails with an exception (agent construction
\* or plan creation) leaves the previously stored plan unchanged, and in
\* every reachable session state a stored plan implies a stored agent
C27_PlanReplacedOnlyByPlan ==
    /\ [](session.travel_plan # NoPlan => session.agent # None)
    /\ [][/\ (loc'.runs # loc.runs /\ ret'.kind \in {"rejected", "error"}) =>
                session'.travel_plan = session.travel_plan
          /\ session'.travel_plan # session.travel_plan =>
                /\ req'.op = "main"
                /\ req'.generate_button
                /\ ret'.kind = "success"
                /\ DOMAIN session'.travel_plan = PlanKeys]_vars

\* C27 witness: the second generate request of a session raised during plan
\* creation, and the plan of the first request is still stored
C27_Witness ==
    /\ req.op = "main"
    /\ req.generate_button
    /\ loc.runs = 2
    /\ ret.kind = "error"
    /\ ret.error = "ValueError"
    /\ session.travel_plan # NoPlan
    /\ session.agent # None

---------------------------------------------------------------------------
(* Claims about _get_city_code                                             *)

CityCodes == {city_codes[k].code : k \in DOMAIN city_codes}

\* C11: a city name that is, once trimmed and upper-cased, a code of the
\* table is mapped to that code, and looking up the result of a lookup gives
\* the same result again
C11_CityCodeIdempotent ==
    (pc = "returned" /\ req.op = "get_city_code") =>
        /\ get_city_code(ret.value) = ret.value
        /\ Strip(Upper(req.city)) \in CityCodes => ret.value = Strip(Upper(req.city))

\* C12: a city whose lower-cased, trimmed name is a key of the table gets
\* that key's code; any other city gets the first 3 characters of the name
\* as given, upper-cased
C12_CityCodeLookup ==
    (pc = "returned" /\ req.op = "get_city_code") =>
        LET name == Strip(Lower(req.city))
        IN  IF \E k \in DOMAIN city_codes : city_codes[k].key = name
            THEN \E k \in DOMAIN city_codes :
                    city_codes[k].key = name /\ ret.value = city_codes[k].code
            ELSE /\ Len(ret.value) = (IF Len(req.city) < 3 THEN Len(req.city) ELSE 3)
                 /\ \A j \in DOMAIN ret.value : ret.value[j] = UpperChar(req.city[j])

\* C12 witness: a padded, upper-case key whose code is not its first three
\* letters
C12_Witness ==
    /\ pc = "returned"
    /\ req.op = "get_city_code"
    /\ req.city = <<" ", "T", "O", "K", "Y", "O", " ", "\n">>
    /\ ret.value = <<"T", "Y", "O">>

IsThreeLetterCode(code) == Len(code) = 3 /\ \A k \in 1..3 : code[k] \in Range(UpperCase)

\* C15: in a plan for accepted inputs, the origin and the destination of the
\* flight search and of every flight are codes of exactly 3 letters
C15_ThreeLetterCodes ==
    (/\ pc = "returned"
     /\ req.op = "create_travel_plan"
     /\ ret.kind = "returned"
     /\ Acceptable(req.destination, req.num_days, req.travel_month)) =>
        /\ IsThreeLetterCode(ret.value.flights.search_params.from)
        /\ IsThreeLetterCode(ret.value.flights.search_params.to)
        /\ \A f \in AllFlights(ret.value.flights) :
              IsThreeLetterCode(f.origin) /\ IsThreeLetterCode(f.destination)

---------------------------------------------------------------------------
(* Claims about the statements of create_travel_plan                       *)

\* a call of create_travel_plan is under way or has ended
InCall == req.op = "create_travel_plan" /\ pc # "idle"

\* the statements in the order of the source text
StepOrder ==
    <<"llm", "weather_current", "weather_forecast", "flights", "itinerary", "plan">>

\* the events of the log before position k that are no invocations
Completed(k) == {j \in 1..(k - 1) : loc.log[j].ev # "invoke"}

\* C18: within one call of an adapter the external service is invoked at
\* most once, and an invocation that times out or raises is followed at once
\* by the adapter returning synthetic data, with no second invocation
C18_NoRetry ==
    InCall =>
        /\ loc.invoked <= 1
        /\ \A k \in DOMAIN loc.log :
              loc.log[k].ev = "invoke" /\ k < Len(loc.log) =>
                  /\ loc.log[k + 1].ev = "return"
                  /\ Service(loc.log[k + 1].of) = loc.log[k].of
        /\ \A k \in DOMAIN loc.log :
              (/\ k > 1
               /\ loc.log[k].ev = "return"
               /\ loc.log[k - 1].ev = "invoke"
               /\ loc.log[k].outcome.kind \in {"timeout", "raise"}) =>
                  CASE loc.log[k].of = "weather_current" ->
                          /\ IsSyntheticReading(loc.weather_current)
                          /\ loc.weather_current.source = SourceMockWeather
                    [] loc.log[k].of = "weather_forecast" ->
                          \A i \in DOMAIN loc.weather_forecast :
                              loc.weather_forecast[i].temperature_celsius
                                  = 240 + ((i - 1) % 3) * 20
                    [] loc.log[k].of = "flights" ->
                          loc.flights.source = SourceKiwiMock
                    [] OTHER -> TRUE

\* C18 witness: the weather service was invoked once, timed out, and the
\* first weather call has returned the synthetic reading
C18_Witness ==
    /\ InCall
    /\ pc = "weather_forecast"
    /\ ext.weather = 1
    /\ loc.log[Len(loc.log) - 1] = [ev |-> "invoke", of |-> "weather"]
    /\ loc.log[Len(loc.log)].outcome.kind = "timeout"
    /\ loc.weather_current.source = SourceMockWeather

\* C19: the statements complete in the order LLM, weather (current, then
\* forecast), flights, itinerary, plan; an external service is invoked only
\* while its own statement is the one under way, and never while another
\* invocation is in flight
C19_StrictSequence ==
    InCall =>
        /\ Cardinality(loc.in_flight) <= 1
        /\ \A k \in DOMAIN loc.log :
              LET n == Cardinality(Completed(k))
              IN  IF loc.log[k].ev = "invoke"
                  THEN loc.log[k].of = Service(StepOrder[n + 1])
                  ELSE loc.log[k].of = StepOrder[n + 1]
        /\ loc.in_flight # {} =>
              /\ loc.log # <<>>
              /\ loc.log[Len(loc.log)].ev = "invoke"
              /\ loc.in_flight = {loc.log[Len(loc.log)].of}
        /\ (pc = "returned" /\ ret.kind = "returned") =>
              loc.log[Len(loc.log)] = [ev |-> "compile", of |-> "plan"]

\* C19 witness: a call that invoked the LLM, the weather service twice and
\* the flight service, and returned its plan
C19_Witness ==
    /\ InCall
    /\ pc = "returned"
    /\ ret.kind = "returned"
    /\ ext = [agent |-> 0, llm |-> 1, weather |-> 2, flights |-> 1, places |-> 1]
    /\ Len(loc.log) = 10

===========================================================================
